---- MODULE Spec2Model ----
(***************************************************************************)
(* A model of the WannaCRI USM container engine: the @UTF page codec       *)
(* (usm/page.py), the chunk codec (usm/chunk.py), the cipher               *)
(* (usm/tools.py) and the muxer / demuxer (usm/usm.py, usm/media).         *)
(*                                                                         *)
(* Bytes are numbers in 0..255 and a bytes object is a sequence of them.   *)
(* A Python str is a sequence of code points.  A Python dict is a sequence *)
(* of entries in insertion order.                                          *)
(***************************************************************************)
EXTENDS Integers, Sequences, FiniteSets, TLC

VARIABLES
    pg_in,      \* page codec: the page list handed to pack_pages
    pg_order,   \* page codec: the iteration order of the key set
    pg_enc,     \* page codec: result of pack_pages
    pg_dec,     \* page codec: result of get_pages on pg_enc
    pg_pc,      \* page codec: "idle" | "start" | "packed" | "decoded"
    ci_seed,    \* cipher: key_num as four 16-bit words, <<>> when none
    ci_keys,    \* cipher: [video_key, audio_key]
    ci_packet,  \* cipher: the packet first handed to a transform
    ci_data,    \* cipher: the packet the last transform returned
    ci_hist,    \* cipher: the calls made, each [op, input]
    ci_err,     \* cipher: the exception a transform raised, "" when none
    ci_pc,      \* cipher: "idle" | "start" | "keyed"
    ch_in,      \* chunk codec: the UsmChunk built by the caller
    ch_packed,  \* chunk codec: result of ch_in.pack()
    ch_len,     \* chunk codec: result of len(ch_in)
    ch_pad,     \* chunk codec: result of ch_in.padding
    ch_out,     \* chunk codec: result of UsmChunk.from_bytes on ch_packed
    ch_pc,      \* chunk codec: "idle" | "start" | "packed" | "measured" | "decoded"
    mx_usm,     \* muxer: the Usm object
    mx_rev,     \* muxer: whether a set of keys is visited in reverse order
    mx_ps,      \* muxer: the locals of _pack_stream
    mx_index,   \* muxer: the index the loop of _pack_stream is at
    mx_pre,     \* muxer: the pre-stream chunks not yet yielded
    mx_emitted, \* muxer: the pre-stream chunks yielded, in order
    mx_out,     \* muxer: the byte blocks Usm.stream has yielded, in order
    mx_pos,     \* muxer: stream_file.tell() while the scratch file is read
    mx_err,     \* muxer: the exception raised, "" when none
    mx_opened,  \* muxer: whether mx_usm was returned by Usm.open
    mx_src,     \* muxer: the bytes of the file mx_usm was opened from
    mx_channels,\* muxer: what _process_chunks returned for mx_src
    mx_pc,      \* muxer: "idle" | "pack" | "emit" | "done" | "failed" | "dropped"
    mx_handle,  \* muxer: the file Usm.open opened: "none" | "open" | "closed"
    mx_scratch, \* muxer: the scratch file of _pack_stream, likewise
    mx_chunks,  \* muxer: the stream loop of Usm.chunks over the scratch bytes
    sk_file,    \* sinks: the bytes of the file behind the shared handle
    sk_index,   \* sinks: offsets_and_sizes and keyframes of each iterator
    sk_i,       \* sinks: the loop index i of each generator
    sk_running, \* sinks: the thread executing each generator, 0 when none
    sk_pos,     \* sinks: the position of the shared handle
    sk_pc,      \* sinks: where each thread is inside its pull
    sk_it,      \* sinks: the iterator each thread is pulling
    sk_frame,   \* sinks: the bytes each thread has read in its pull
    sk_res,     \* sinks: what the last pull of each thread returned
    sk_calls    \* sinks: the number of pulls begun

pg_vars == <<pg_in, pg_order, pg_enc, pg_dec, pg_pc>>
ci_vars == <<ci_seed, ci_keys, ci_packet, ci_data, ci_hist, ci_err, ci_pc>>
ch_vars == <<ch_in, ch_packed, ch_len, ch_pad, ch_out, ch_pc>>
mx_vars == <<mx_usm, mx_rev, mx_ps, mx_index, mx_pre, mx_emitted, mx_out, mx_pos,
             mx_err, mx_opened, mx_src, mx_channels, mx_pc, mx_handle, mx_scratch,
             mx_chunks>>
mx_files == <<mx_handle, mx_scratch>>
sk_vars == <<sk_file, sk_index, sk_i, sk_running, sk_pos, sk_pc, sk_it, sk_frame,
             sk_res, sk_calls>>
vars == <<pg_vars, ci_vars, ch_vars, mx_vars, sk_vars>>

\* a component that takes no part in a specification
PgIdle ==
    /\ pg_in = <<>>
    /\ pg_order = <<>>
    /\ pg_enc = [err |-> "", bytes |-> <<>>]
    /\ pg_dec = [err |-> "", pages |-> <<>>]
    /\ pg_pc = "idle"

CiIdle ==
    /\ ci_seed = <<>>
    /\ ci_keys = [video_key |-> <<>>, audio_key |-> <<>>]
    /\ ci_packet = <<>>
    /\ ci_data = <<>>
    /\ ci_hist = <<>>
    /\ ci_err = ""
    /\ ci_pc = "idle"

ChIdle ==
    /\ ch_in = <<>>
    /\ ch_packed = [err |-> "", bytes |-> <<>>]
    /\ ch_len = [err |-> "", n |-> 0]
    /\ ch_pad = [err |-> "", n |-> 0]
    /\ ch_out = <<>>
    /\ ch_pc = "idle"

MxIdle ==
    /\ mx_usm = <<>>
    /\ mx_rev = FALSE
    /\ mx_ps = <<>>
    /\ mx_index = 0
    /\ mx_pre = <<>>
    /\ mx_emitted = <<>>
    /\ mx_out = <<>>
    /\ mx_pos = 0
    /\ mx_err = ""
    /\ mx_opened = FALSE
    /\ mx_src = <<>>
    /\ mx_channels = <<>>
    /\ mx_pc = "idle"
    /\ mx_handle = "none"
    /\ mx_scratch = "none"
    /\ mx_chunks = <<>>

SkIdle ==
    /\ sk_file = <<>>
    /\ sk_index = <<>>
    /\ sk_i = <<>>
    /\ sk_running = <<>>
    /\ sk_pos = 0
    /\ sk_pc = <<>>
    /\ sk_it = <<>>
    /\ sk_frame = <<>>
    /\ sk_res = <<>>
    /\ sk_calls = 0

----------------------------------------------------------------------------
(* Python built-ins used by the code *)

Min(a, b) == IF a < b THEN a ELSE b
Max(a, b) == IF a > b THEN a ELSE b

\* s[a:b] for 0 <= a, b (Python slices clamp to the length)
Slice(s, a, b) == SubSeq(s, a + 1, Min(b, Len(s)))

\* s[a:]
SliceFrom(s, a) == SubSeq(s, a + 1, Len(s))

\* bytes(n): n zero bytes
Zeros(n) == [i \in 1..n |-> 0]

\* v.to_bytes(n, "big") and v.to_bytes(n, "big", signed=True) for a value in
\* range: floor division keeps the two's complement of a negative value.
RECURSIVE ToBytesBE(_, _)
ToBytesBE(v, n) ==
    IF n = 0 THEN <<>> ELSE Append(ToBytesBE(v \div 256, n - 1), v % 256)

\* whether v.to_bytes(n, "big", signed=sg) raises OverflowError
InRange(v, n, sg) ==
    IF sg
    THEN \/ n >= 4
         \/ /\ n = 1 /\ v >= -128 /\ v <= 127
         \/ /\ n = 2 /\ v >= -32768 /\ v <= 32767
    ELSE /\ v >= 0
         /\ \/ n >= 4
            \/ /\ n = 1 /\ v <= 255
            \/ /\ n = 2 /\ v <= 65535

\* int.from_bytes(b, "big")
RECURSIVE FromBytesBE(_)
FromBytesBE(b) ==
    IF Len(b) = 0 THEN 0
    ELSE FromBytesBE(SubSeq(b, 1, Len(b) - 1)) * 256 + b[Len(b)]

\* int.from_bytes(b, "big", signed=True)
RECURSIVE FromBytesBESignedAcc(_, _)
FromBytesBESignedAcc(b, acc) ==
    IF Len(b) = 0 THEN acc
    ELSE FromBytesBESignedAcc(Tail(b), acc * 256 + Head(b))

FromBytesBESigned(b) ==
    IF Len(b) = 0 THEN 0
    ELSE FromBytesBESignedAcc(Tail(b),
                              IF Head(b) >= 128 THEN Head(b) - 256 ELSE Head(b))

\* b.index(0x00): the 0-based position of the first zero byte, -1 when
\* there is none (Python raises ValueError)
IndexOfZero(b) ==
    LET zeros == {i \in 1..Len(b) : b[i] = 0}
    IN  IF zeros = {} THEN -1
        ELSE (CHOOSE i \in zeros : \A j \in zeros : i <= j) - 1

\* bytes(s, "UTF-8") for code points below 0x800
RECURSIVE Utf8Encode(_)
Utf8Encode(s) ==
    IF Len(s) = 0 THEN <<>>
    ELSE IF Len(s) = 1
    THEN (IF s[1] < 128 THEN <<s[1]>>
          ELSE <<192 + (s[1] \div 64), 128 + (s[1] % 64)>>)
    ELSE Utf8Encode(SubSeq(s, 1, Len(s) \div 2))
         \o Utf8Encode(SubSeq(s, Len(s) \div 2 + 1, Len(s)))

\* b.decode("UTF-8") for sequences of one- and two-byte forms
RECURSIVE Utf8Decode(_)
Utf8Decode(b) ==
    LET high == {i \in 1..Len(b) : b[i] >= 128}
        n == CHOOSE i \in high : \A j \in high : i <= j
    IN  IF high = {} THEN b
        ELSE IF n < Len(b)
        THEN SubSeq(b, 1, n - 1)
             \o <<(b[n] - 192) * 64 + (b[n + 1] - 128)>>
             \o Utf8Decode(SubSeq(b, n + 2, Len(b)))
        ELSE SubSeq(b, 1, n - 1) \o <<65533>>

----------------------------------------------------------------------------
(* usm/tools.py: the cipher *)

RECURSIVE XorBits(_, _, _)
XorBits(a, b, n) ==
    IF n = 0 THEN 0
    ELSE ((a + b) % 2) + 2 * XorBits(a \div 2, b \div 2, n - 1)

XorNibble == [a \in 0..15 |-> [b \in 0..15 |-> XorBits(a, b, 4)]]

\* faulty variants of a ^ b, used to test that the claims about the cipher
\* depend on it: the smaller and the larger operand
XorAsMin(a, b) == Min(a, b)

XorAsMax(a, b) == Max(a, b)

\* a ^ b on bytes
Xor(a, b) == 16 * XorNibble[a \div 16][b \div 16] + XorNibble[a % 16][b % 16]

\* s[i] with Python's 0-based index
At(s, i) == s[i + 1]

\* key_num.to_bytes(8, "little"): key_num is held as its four 16-bit words,
\* least significant first
KeyNumToBytesLE(key_num) ==
    <<key_num[1] % 256, key_num[1] \div 256, key_num[2] % 256, key_num[2] \div 256,
      key_num[3] % 256, key_num[3] \div 256, key_num[4] % 256, key_num[4] \div 256>>

\* lines 71-103: the 0x20-byte block key[]
KeyBlock(cipher_key) ==
    LET k00 == At(cipher_key, 0)
        k01 == At(cipher_key, 1)
        k02 == At(cipher_key, 2)
        k03 == (At(cipher_key, 3) - 52) % 256
        k04 == (At(cipher_key, 4) + 249) % 256
        k05 == Xor(At(cipher_key, 5), 19)
        k06 == (At(cipher_key, 6) + 97) % 256
        k07 == Xor(k00, 255)
        k08 == (k01 + k02) % 256
        k09 == (k01 - k07) % 256
        k0A == Xor(k02, 255)
        k0B == Xor(k01, 255)
        k0C == (k0B + k09) % 256
        k0D == (k08 - k03) % 256
        k0E == Xor(k0D, 255)
        k0F == (k0A - k0B) % 256
        k10 == (k08 - k0F) % 256
        k11 == Xor(k10, k07)
        k12 == Xor(k0F, 255)
        k13 == Xor(k03, 16)
        k14 == (k04 - 50) % 256
        k15 == (k05 + 237) % 256
        k16 == Xor(k06, 243)
        k17 == (k13 - k0F) % 256
        k18 == (k15 + k07) % 256
        k19 == (33 - k13) % 256
        k1A == Xor(k14, k17)
        k1B == (k16 + k16) % 256
        k1C == (k17 + 68) % 256
        k1D == (k03 + k04) % 256
        k1E == (k05 - k16) % 256
        k1F == Xor(k1D, k13)
    IN  <<k00, k01, k02, k03, k04, k05, k06, k07, k08, k09, k0A, k0B, k0C, k0D,
          k0E, k0F, k10, k11, k12, k13, k14, k15, k16, k17, k18, k19, k1A, k1B,
          k1C, k1D, k1E, k1F>>

\* "URUC"
StrURUC == <<85, 82, 85, 67>>

\* a faulty variant of generate_keys, used to test that the claims about the
\* keys depend on it: the odd bytes of the audio key are "URUC"[i mod 4]
generate_keysUrucByIndex(key_num) ==
    LET key == KeyBlock(KeyNumToBytesLE(key_num))
    IN  [video_key |-> [n \in 1..64 |->
                           IF n <= 32 THEN key[n] ELSE Xor(key[n - 32], 255)],
         audio_key |-> [n \in 1..32 |->
                           IF (n - 1) % 2 /= 0
                           THEN At(StrURUC, (n - 1) % 4)
                           ELSE Xor(key[n], 255)]]

\* generate_keys(key_num): [video_key, audio_key]
generate_keys(key_num) ==
    LET key == KeyBlock(KeyNumToBytesLE(key_num))
    IN  [video_key |-> [n \in 1..64 |->
                           IF n <= 32 THEN key[n] ELSE Xor(key[n - 32], 255)],
         audio_key |-> [n \in 1..32 |->
                           IF (n - 1) % 2 /= 0
                           THEN At(StrURUC, ((n - 1) \div 2) % 4)
                           ELSE Xor(key[n], 255)]]

\* The loops over i are folded over the range [lo, hi) by halving it, which
\* keeps the order of the iterations; the left half is evaluated (its data is
\* inspected) before the right half is entered.  st is [data, rolling].

\* encrypt lines 151-152 and decrypt lines 133-134: one iteration
VideoHeadStep(st, i, video_key) ==
    LET r == Xor(At(st.rolling, i % 32), At(st.data, 320 + i))
    IN  [data |-> [st.data EXCEPT ![64 + i + 1] = Xor(@, r)],
         rolling |-> [st.rolling EXCEPT ![(i % 32) + 1] = r]]

\* encrypt lines 155-157: one iteration
EncryptTailStep(st, i, video_key) ==
    LET plainbyte == At(st.data, 64 + i)
    IN  [data |-> [st.data EXCEPT
                      ![64 + i + 1] = Xor(@, At(st.rolling, 32 + (i % 32)))],
         rolling |-> [st.rolling EXCEPT
                         ![32 + (i % 32) + 1] =
                             Xor(plainbyte, At(video_key, 32 + (i % 32)))]]

\* a faulty variant of the decrypt iteration, used to test that the round
\* trip depends on it: the encrypted byte is fed back, not the decrypted one
DecryptTailStepFedBack(st, i, video_key) ==
    LET encrypted == At(st.data, 64 + i)
    IN  [data |-> [st.data EXCEPT
                      ![64 + i + 1] = Xor(@, At(st.rolling, 32 + (i % 32)))],
         rolling |-> [st.rolling EXCEPT
                         ![32 + (i % 32) + 1] =
                             Xor(encrypted, At(video_key, 32 + (i % 32)))]]

\* decrypt lines 129-130: one iteration
DecryptTailStep(st, i, video_key) ==
    LET d == Xor(At(st.data, 64 + i), At(st.rolling, 32 + (i % 32)))
    IN  [data |-> [st.data EXCEPT ![64 + i + 1] = d],
         rolling |-> [st.rolling EXCEPT
                         ![32 + (i % 32) + 1] =
                             Xor(d, At(video_key, 32 + (i % 32)))]]

\* for i in range(0x100): ...
RECURSIVE VideoPassHead(_, _, _, _)
VideoPassHead(st, lo, hi, video_key) ==
    IF lo >= hi THEN st
    ELSE IF hi = lo + 1 THEN VideoHeadStep(st, lo, video_key)
    ELSE LET left == VideoPassHead(st, lo, (lo + hi) \div 2, video_key)
         IN  IF Len(left.data) = 0 THEN left
             ELSE VideoPassHead(left, (lo + hi) \div 2, hi, video_key)

\* encrypt: for i in range(0x100, encrypted_part_size): ...
RECURSIVE EncryptPassTail(_, _, _, _)
EncryptPassTail(st, lo, hi, video_key) ==
    IF lo >= hi THEN st
    ELSE IF hi = lo + 1 THEN EncryptTailStep(st, lo, video_key)
    ELSE LET left == EncryptPassTail(st, lo, (lo + hi) \div 2, video_key)
         IN  IF Len(left.data) = 0 THEN left
             ELSE EncryptPassTail(left, (lo + hi) \div 2, hi, video_key)

\* decrypt: for i in range(0x100, encrypted_part_size): ...
RECURSIVE DecryptPassTail(_, _, _, _)
DecryptPassTail(st, lo, hi, video_key) ==
    IF lo >= hi THEN st
    ELSE IF hi = lo + 1 THEN DecryptTailStep(st, lo, video_key)
    ELSE LET left == DecryptPassTail(st, lo, (lo + hi) \div 2, video_key)
         IN  IF Len(left.data) = 0 THEN left
             ELSE DecryptPassTail(left, (lo + hi) \div 2, hi, video_key)

\* decrypt_video_packet(packet, video_key): [err, data]
decrypt_video_packet(packet, video_key) ==
    IF Len(video_key) < 64 THEN [err |-> "ValueError", data |-> <<>>]
    ELSE LET encrypted_part_size == Len(packet) - 64
         IN  IF encrypted_part_size >= 512
             THEN [err |-> "",
                   data |-> VideoPassHead(
                                DecryptPassTail([data |-> packet, rolling |-> video_key],
                                                256, encrypted_part_size, video_key),
                                0, 256, video_key).data]
             ELSE [err |-> "", data |-> packet]

\* encrypt_video_packet(packet, video_key): [err, data]
encrypt_video_packet(packet, video_key) ==
    IF Len(video_key) < 64 THEN [err |-> "ValueError", data |-> <<>>]
    ELSE IF Len(packet) >= 576
         THEN [err |-> "",
               data |-> EncryptPassTail(
                            VideoPassHead([data |-> packet, rolling |-> video_key],
                                          0, 256, video_key),
                            256, Len(packet) - 64, video_key).data]
         ELSE [err |-> "", data |-> packet]

\* a faulty variant of _crypt_audio_packet, used to test that the claims
\* about the bytes it leaves alone depend on it: the loop starts at 0x120
crypt_audio_packetFrom0x120(packet, key) ==
    IF Len(packet) > 320
    THEN IF \E i \in 288..(Len(packet) - 1) : i % 32 >= Len(key)
         THEN [err |-> "IndexError", data |-> <<>>]
         ELSE [err |-> "",
               data |-> [n \in 1..Len(packet) |->
                            IF n - 1 >= 288
                            THEN Xor(packet[n], At(key, (n - 1) % 32))
                            ELSE packet[n]]]
    ELSE [err |-> "", data |-> packet]

\* _crypt_audio_packet(packet, key): [err, data]; key[i % 0x20] raises
\* IndexError when the key is shorter than the index
crypt_audio_packet(packet, key) ==
    IF Len(packet) > 320
    THEN IF \E i \in 320..(Len(packet) - 1) : i % 32 >= Len(key)
         THEN [err |-> "IndexError", data |-> <<>>]
         ELSE [err |-> "",
               data |-> [n \in 1..Len(packet) |->
                            IF n - 1 >= 320
                            THEN Xor(packet[n], At(key, (n - 1) % 32))
                            ELSE packet[n]]]
    ELSE [err |-> "", data |-> packet]

----------------------------------------------------------------------------
(* usm/types.py.  page.py and usm.py name the element types CHAR, UCHAR,   *)
(* SHORT, USHORT, INT, UINT, LONGLONG, ULONGLONG, FLOAT and the occurrence *)
(* SHARED, UNIQUE; they are the members with the same tags.                *)

I8 == 16
U8 == 17
I16 == 18
U16 == 19
I32 == 20
U32 == 21
I64 == 22
U64 == 23
F32 == 24
F64 == 25
STRING_T == 26
BYTES == 27

ElementTypeTags == {I8, U8, I16, U16, I32, U32, I64, U64, F32, F64, STRING_T, BYTES}

RECURRING == 1
NON_RECURRING == 2

\* Python values: every value is a record of its Python type and a sequence
\* of numbers (a float is named by its IEEE-754 bit pattern).
PyInt(n) == [py |-> "int", v |-> <<n>>]
PyStr(s) == [py |-> "str", v |-> s]
PyBytes(b) == [py |-> "bytes", v |-> b]
PyFloat(bits) == [py |-> "float", v |-> <<bits>>]
PyTuple(x) == [py |-> "tuple", v |-> x.v]

\* class Element(NamedTuple)
Element(val, type) == [val |-> val, type |-> type]

\* UsmPage(name): an empty page
UsmPage(name) == [name |-> name, dict |-> <<>>]

\* "<NULL>", "@UTF", "filename"
StrNULL == <<60, 78, 85, 76, 76, 62>>
StrUTF == <<64, 85, 84, 70>>
StrFilename == <<102, 105, 108, 101, 110, 97, 109, 101>>

PageKeys(page) == {page.dict[i].key : i \in 1..Len(page.dict)}

\* page[key] / page.get(key): key is a key of the page
PageGet(page, key) ==
    (CHOOSE e \in {page.dict[i] : i \in 1..Len(page.dict)} : e.key = key).el

PageHas(page, key) == key \in PageKeys(page)

\* element.replace("\\", "/")
ReplaceBackslash(s) == [i \in 1..Len(s) |-> IF s[i] = 92 THEN 47 ELSE s[i]]

\* UsmPage.update: dict.update keeps the position of a key already present.
\* The result is [ok, page]; a "filename" that is no str has no replace().
update(page, name, element_type, element) ==
    LET el1 == IF name = StrFilename /\ element.py = "str"
               THEN PyStr(ReplaceBackslash(element.v))
               ELSE element
        entry == [key |-> name, el |-> Element(el1, element_type)]
        d == IF PageHas(page, name)
             THEN [i \in 1..Len(page.dict) |->
                      IF page.dict[i].key = name THEN entry ELSE page.dict[i]]
             ELSE Append(page.dict, entry)
    IN  IF name = StrFilename /\ element.py /= "str"
        THEN [ok |-> FALSE, page |-> page]
        ELSE [ok |-> TRUE, page |-> [page EXCEPT !.dict = d]]

----------------------------------------------------------------------------
(* usm/page.py: pack_pages *)

\* lines 220-238: the checks of pack_pages; "" when the pages pass
PackPagesCheck(pages) ==
    IF Len(pages) = 0 THEN "No pages given."
    ELSE LET num_keys == Len(pages[1].dict)
             bad == {i \in 1..Len(pages) :
                        \/ pages[i].name /= pages[1].name
                        \/ Len(pages[i].dict) /= num_keys}
             keys == UNION {PageKeys(pages[i]) : i \in 1..Len(pages)}
         IN  IF bad /= {}
             THEN LET i == CHOOSE k \in bad : \A m \in bad : k <= m
                  IN  IF pages[i].name /= pages[1].name
                      THEN "Pages don't have the same names."
                      ELSE "Pages don't have the same keys."
             ELSE IF Cardinality(keys) /= num_keys
             THEN "Pages don't have the same keys."
             ELSE ""

\* lines 242-246: "<NULL>\0" and the page name
StringArrayStart(page_name) ==
    StrNULL \o <<0>> \o Utf8Encode(page_name) \o <<0>>

\* line 255, over the keys in the order the set yields them
RECURSIVE KeyNamesBytes(_)
KeyNamesBytes(korder) ==
    IF Len(korder) = 0 THEN <<>>
    ELSE Utf8Encode(Head(korder)) \o <<0>> \o KeyNamesBytes(Tail(korder))

\* line 254: elements[key][0]
ElementNameOffset(page_name, korder, key) ==
    LET idx == CHOOSE i \in 1..Len(korder) : korder[i] = key
    IN  Len(StringArrayStart(page_name))
        + Len(KeyNamesBytes(SubSeq(korder, 1, idx - 1)))

\* a faulty variant of common_elements, used to test that the claims about
\* recurring columns depend on it: the test len(pages) > 1 left out
CommonElementsAnyLength(pages) ==
    {key \in PageKeys(pages[1]) :
        \A i \in 1..Len(pages) :
            PageGet(pages[i], key) = PageGet(pages[1], key)}

\* lines 257-267: the keys whose set of values over all pages has one member
CommonElements(pages) ==
    {key \in PageKeys(pages[1]) :
        /\ Len(pages) > 1
        /\ \A i \in 1..Len(pages) :
              PageGet(pages[i], key) = PageGet(pages[1], key)}

\* lines 300-330: the bytes of one value, with the string and byte pools.
\* struct.pack("<f") writes the bit pattern low byte first.
Reverse(s) == [i \in 1..Len(s) |-> s[Len(s) + 1 - i]]

EncodeInt(el, n, sg, st, by) ==
    IF InRange(el.val.v[1], n, sg)
    THEN [err |-> "", cur |-> ToBytesBE(el.val.v[1], n), st |-> st, by |-> by]
    ELSE [err |-> "OverflowError", cur |-> <<>>, st |-> st, by |-> by]

EncodeValue(el, st, by) ==
    CASE el.type = I8 -> EncodeInt(el, 1, TRUE, st, by)
      [] el.type = U8 -> EncodeInt(el, 1, FALSE, st, by)
      [] el.type = I16 -> EncodeInt(el, 2, TRUE, st, by)
      [] el.type = U16 -> EncodeInt(el, 2, FALSE, st, by)
      [] el.type = I32 -> EncodeInt(el, 4, TRUE, st, by)
      [] el.type = U32 -> EncodeInt(el, 4, FALSE, st, by)
      [] el.type = I64 -> EncodeInt(el, 8, TRUE, st, by)
      [] el.type = U64 -> EncodeInt(el, 8, FALSE, st, by)
      [] el.type = F32 ->
            [err |-> "", cur |-> Reverse(ToBytesBE(el.val.v[1], 4)),
             st |-> st, by |-> by]
      [] el.type = STRING_T ->
            [err |-> "", cur |-> ToBytesBE(Len(st), 4),
             st |-> st \o Utf8Encode(el.val.v) \o <<0>>, by |-> by]
      [] el.type = BYTES ->
            [err |-> "",
             cur |-> ToBytesBE(Len(by), 4) \o ToBytesBE(Len(by) + Len(el.val.v), 4),
             st |-> st, by |-> by \o el.val.v]
      [] OTHER ->
            [err |-> "Unknown element type", cur |-> <<>>, st |-> st, by |-> by]

\* lines 274-298: the arrays after the value enc of entry is written; sh1
\* is the schema with the descriptor of a first page's element
PackEncoded(acc, i, isCommon, sh1, enc) ==
    IF acc.err /= "" THEN acc
    ELSE IF isCommon /\ i /= 1 THEN acc
    ELSE IF enc.err /= "" THEN [acc EXCEPT !.err = enc.err]
    ELSE [sh |-> IF isCommon THEN sh1 \o enc.cur ELSE sh1,
          un |-> IF isCommon THEN acc.un ELSE acc.un \o enc.cur,
          st |-> enc.st, by |-> enc.by, err |-> ""]

\* lines 274-298: one (element_name, element) of page i (1-based)
PackElement(acc, i, entry, common, page_name, korder) ==
    PackEncoded(acc, i, entry.key \in common,
                IF i = 1
                THEN acc.sh
                     \o <<entry.el.type
                          + (IF entry.key \in common THEN RECURRING
                             ELSE NON_RECURRING) * 32>>
                     \o ToBytesBE(ElementNameOffset(page_name, korder, entry.key), 4)
                ELSE acc.sh,
                EncodeValue(entry.el, acc.st, acc.by))

\* lines 273-274: the two loops, pages outside and a page's items inside
RECURSIVE PackLoop(_, _, _, _, _, _)
PackLoop(acc, pages, i, j, common, korder) ==
    IF i > Len(pages) THEN acc
    ELSE IF j > Len(pages[i].dict)
    THEN PackLoop(acc, pages, i + 1, 1, common, korder)
    ELSE LET next == PackElement(acc, i, pages[i].dict[j], common,
                                 pages[1].name, korder)
         IN  IF next.err /= "" THEN next
             ELSE PackLoop(next, pages, i, j + 1, common, korder)

\* the table put together with the 8 bytes of magic and size counted in the
\* size field
PackAssembleWholeSize(acc, pages, num_keys, page_name_offset, string_padding) ==
    LET string_array == acc.st \o Zeros(string_padding)
        data_size == 32 + Len(acc.sh) + Len(acc.un) + Len(string_array)
                     + Len(acc.by)
        unique_array_offset == 24 + Len(acc.sh)
        strings_offset == 24 + Len(acc.sh) + Len(acc.un)
        byte_array_offset == 24 + Len(acc.sh) + Len(acc.un) + Len(string_array)
        unique_array_size_per_page == Len(acc.un) \div Len(pages)
    IN  StrUTF
        \o ToBytesBE(data_size, 4)
        \o ToBytesBE(unique_array_offset, 4)
        \o ToBytesBE(strings_offset, 4)
        \o ToBytesBE(byte_array_offset, 4)
        \o ToBytesBE(page_name_offset, 4)
        \o ToBytesBE(num_keys, 2)
        \o ToBytesBE(unique_array_size_per_page, 2)
        \o ToBytesBE(Len(pages), 4)
        \o acc.sh \o acc.un \o string_array \o acc.by

\* lines 332-362: the table put together
PackAssemble(acc, pages, num_keys, page_name_offset, string_padding) ==
    LET string_array == acc.st \o Zeros(string_padding)
        data_size == 24 + Len(acc.sh) + Len(acc.un) + Len(string_array)
                     + Len(acc.by)
        unique_array_offset == 24 + Len(acc.sh)
        strings_offset == 24 + Len(acc.sh) + Len(acc.un)
        byte_array_offset == 24 + Len(acc.sh) + Len(acc.un) + Len(string_array)
        unique_array_size_per_page == Len(acc.un) \div Len(pages)
    IN  StrUTF
        \o ToBytesBE(data_size, 4)
        \o ToBytesBE(unique_array_offset, 4)
        \o ToBytesBE(strings_offset, 4)
        \o ToBytesBE(byte_array_offset, 4)
        \o ToBytesBE(page_name_offset, 4)
        \o ToBytesBE(num_keys, 2)
        \o ToBytesBE(unique_array_size_per_page, 2)
        \o ToBytesBE(Len(pages), 4)
        \o acc.sh \o acc.un \o string_array \o acc.by

\* lines 332-362: the table, or the error the loops ended with
PackTable(acc, pages, korder, string_padding) ==
    IF acc.err /= "" THEN [err |-> acc.err, bytes |-> <<>>]
    ELSE [err |-> "",
          bytes |-> PackAssemble(acc, pages, Len(korder), Len(StrNULL) + 1,
                                 string_padding)]

\* pack_pages(pages, encoding, string_padding).  korder is the order in which
\* "for key in keys" visits the set of keys; the result is [err, bytes].
pack_pages(pages, korder, string_padding) ==
    IF PackPagesCheck(pages) /= ""
    THEN [err |-> PackPagesCheck(pages), bytes |-> <<>>]
    ELSE PackTable(PackLoop([sh |-> <<>>, un |-> <<>>,
                             st |-> StringArrayStart(pages[1].name)
                                    \o KeyNamesBytes(korder),
                             by |-> <<>>, err |-> ""],
                            pages, 1, 1, CommonElements(pages), korder),
                   pages, korder, string_padding)

----------------------------------------------------------------------------
(* usm/page.py: get_pages *)

\* the NUL-terminated string at offset off of the string array:
\* [err, str] (b.index(0x00) raises ValueError when no NUL follows)
CString(string_array, off) ==
    LET n == IndexOfZero(SliceFrom(string_array, off))
    IN  IF n < 0 THEN [err |-> "ValueError", str |-> <<>>]
        ELSE [err |-> "", str |-> Utf8Decode(Slice(string_array, off, off + n))]

\* lines 132-205: the value of one element read from current_array:
\* [err, val, size]
DecodeValue(type, cur, string_array, byte_array) ==
    CASE type \in {I8, U8} ->
            IF Len(cur) = 0 THEN [err |-> "IndexError", val |-> PyInt(0), size |-> 1]
            ELSE [err |-> "", val |-> PyInt(cur[1]), size |-> 1]
      [] type = I16 ->
            [err |-> "", val |-> PyInt(FromBytesBESigned(Slice(cur, 0, 2))), size |-> 2]
      [] type = U16 ->
            [err |-> "", val |-> PyInt(FromBytesBE(Slice(cur, 0, 2))), size |-> 2]
      [] type = I32 ->
            [err |-> "", val |-> PyInt(FromBytesBESigned(Slice(cur, 0, 4))), size |-> 4]
      [] type = U32 ->
            [err |-> "", val |-> PyInt(FromBytesBE(Slice(cur, 0, 4))), size |-> 4]
      [] type = I64 ->
            [err |-> "", val |-> PyInt(FromBytesBESigned(Slice(cur, 0, 8))), size |-> 8]
      [] type = U64 ->
            [err |-> "", val |-> PyInt(FromBytesBE(Slice(cur, 0, 8))), size |-> 8]
      [] type = F32 ->
            IF Len(cur) < 4 THEN [err |-> "struct.error", val |-> PyInt(0), size |-> 4]
            ELSE [err |-> "",
                  val |-> PyTuple(PyFloat(FromBytesBE(Reverse(Slice(cur, 0, 4))))),
                  size |-> 4]
      [] type = STRING_T ->
            LET cs == CString(string_array, FromBytesBE(Slice(cur, 0, 4)))
            IN  [err |-> cs.err, val |-> PyStr(cs.str), size |-> 4]
      [] type = BYTES ->
            [err |-> "",
             val |-> PyBytes(Slice(byte_array, FromBytesBE(Slice(cur, 0, 4)),
                                   FromBytesBE(Slice(cur, 4, 8)))),
             size |-> 8]
      [] OTHER -> [err |-> "Unknown element type", val |-> PyInt(0), size |-> 0]

\* lines 128-210: the element named nm, of this type and occurrence, with
\* the value dv read, put on the page; up is the page updated
DecodedElement(st, element_type, element_occurrence, nm, dv, up) ==
    IF nm.err /= "" THEN [st EXCEPT !.err = nm.err]
    ELSE IF element_type \notin ElementTypeTags
    THEN [st EXCEPT !.err = "Value is outside of valid values."]
    ELSE IF element_occurrence \notin {RECURRING, NON_RECURRING}
    THEN [st EXCEPT !.err = "Unknown case"]
    ELSE IF dv.err /= "" THEN [st EXCEPT !.err = dv.err]
    ELSE IF ~up.ok THEN [st EXCEPT !.err = "AttributeError"]
    ELSE [page |-> up.page,
          sh |-> IF element_occurrence = RECURRING
                 THEN SliceFrom(st.sh, 5 + dv.size) ELSE SliceFrom(st.sh, 5),
          un |-> IF element_occurrence = RECURRING
                 THEN st.un ELSE SliceFrom(st.un, dv.size),
          err |-> ""]

\* lines 132-205: the value read from the array the occurrence names
ReadElement(st, element_type, element_occurrence, nm, dv) ==
    DecodedElement(st, element_type, element_occurrence, nm, dv,
                   update(st.page, nm.str, element_type, dv.val))

\* lines 97-210: one element of one page; st is [page, sh, un, err]
DecodeElement(st, string_array, byte_array) ==
    IF st.err /= "" THEN st
    ELSE IF Len(st.sh) = 0 THEN [st EXCEPT !.err = "IndexError"]
    ELSE ReadElement(st, st.sh[1] % 32, st.sh[1] \div 32,
                     CString(string_array, FromBytesBE(Slice(st.sh, 1, 5))),
                     DecodeValue(st.sh[1] % 32,
                                 IF st.sh[1] \div 32 = RECURRING
                                 THEN SliceFrom(st.sh, 5) ELSE st.un,
                                 string_array, byte_array))

RECURSIVE DecodeElements(_, _, _, _)
DecodeElements(st, n, string_array, byte_array) ==
    IF n = 0 THEN st
    ELSE DecodeElements(DecodeElement(st, string_array, byte_array), n - 1,
                        string_array, byte_array)

\* line 211: pages.append(page); st is what the elements of the page left
AppendPage(acc, st) ==
    [pages |-> Append(acc.pages, st.page), un |-> st.un, err |-> st.err]

\* lines 95-97: the pages in turn; acc is [pages, un, err]
RECURSIVE DecodePages(_, _, _, _, _, _, _)
DecodePages(acc, n, page_name, shared0, num_elements, string_array, byte_array) ==
    IF n = 0 \/ acc.err /= "" THEN acc
    ELSE DecodePages(
             AppendPage(acc,
                        DecodeElements([page |-> UsmPage(page_name), sh |-> shared0,
                                        un |-> acc.un, err |-> ""],
                                       num_elements, string_array, byte_array)),
             n - 1, page_name, shared0, num_elements, string_array, byte_array)

\* line 213: return pages; or the error the page name or a page ended with
PagesRead(pn, res) ==
    IF pn.err /= "" THEN [err |-> pn.err, pages |-> <<>>]
    ELSE IF res.err /= "" THEN [err |-> res.err, pages |-> <<>>]
    ELSE [err |-> "", pages |-> res.pages]

\* lines 63-95: the arrays cut out of the table, and the pages read from them
ReadPages(info, unique_array_offset, num_elements_per_page, unique_array_size_per_page, num_pages, string_array, byte_array, pn) ==
    PagesRead(pn,
              DecodePages([pages |-> <<>>,
                           un |-> Slice(info, 8 + unique_array_offset,
                                        8 + unique_array_offset
                                        + unique_array_size_per_page * num_pages),
                           err |-> ""],
                          num_pages, pn.str, Slice(info, 32, 8 + unique_array_offset),
                          num_elements_per_page, string_array, byte_array))

\* lines 48-62: the header of the table
ReadTable(info, strings_offset, byte_array_offset, string_array) ==
    ReadPages(info, FromBytesBE(Slice(info, 8, 12)),
              FromBytesBE(Slice(info, 24, 26)), FromBytesBE(Slice(info, 26, 28)),
              FromBytesBE(Slice(info, 28, 32)), string_array,
              Slice(info, 8 + byte_array_offset, 8 + FromBytesBE(Slice(info, 4, 8))),
              CString(string_array, FromBytesBE(Slice(info, 20, 24))))

\* get_pages(info): [err, pages]
get_pages(info) ==
    IF Slice(info, 0, 4) /= StrUTF
    THEN [err |-> "Invalid info data signature", pages |-> <<>>]
    ELSE ReadTable(info, FromBytesBE(Slice(info, 12, 16)),
                   FromBytesBE(Slice(info, 16, 20)),
                   Slice(info, 8 + FromBytesBE(Slice(info, 12, 16)),
                         8 + FromBytesBE(Slice(info, 16, 20))))

----------------------------------------------------------------------------
(* usm/types.py: ChunkType and PayloadType; usm/chunk.py: UsmChunk *)

\* b"CRID", b"@SFV", b"@SFA", b"@ALP", b"@SBT", b"@CUE", b"SFSH", b"@AHX",
\* b"@USR", b"@PST"
INFO == <<67, 82, 73, 68>>
VIDEO == <<64, 83, 70, 86>>
AUDIO == <<64, 83, 70, 65>>
ALPHA == <<64, 65, 76, 80>>
SUBTITLE == <<64, 83, 66, 84>>
CUE == <<64, 67, 85, 69>>
SFSH == <<83, 70, 83, 72>>
AHX == <<64, 65, 72, 88>>
USR == <<64, 85, 83, 82>>
PST == <<64, 80, 83, 84>>

\* ChunkType.all_values()
ChunkTypeValues == {INFO, VIDEO, AUDIO, ALPHA, SUBTITLE, CUE, SFSH, AHX, USR, PST}

STREAM == 0
HEADER == 1
SECTION_END == 2
METADATA == 3

\* s[a:b] for any a, b: a negative index counts from the end
SliceIndex(i, n) == IF i < 0 THEN Max(n + i, 0) ELSE Min(i, n)

PySlice(s, a, b) == SubSeq(s, SliceIndex(a, Len(s)) + 1, SliceIndex(b, Len(s)))

\* math.ceil(a / b) for a >= 0, b > 0
CeilDiv(a, b) == (a + b - 1) \div b

\* the padding argument of UsmChunk: an int, or one of the functions the
\* muxer passes, metadata_pad and pad_to_next_sector(position)
PadInt(n) == [fn |-> "int", arg |-> n]
PadMetadata == [fn |-> "metadata_pad", arg |-> 0]
PadToNextSector(position) == [fn |-> "pad_to_next_sector", arg |-> position]

\* usm.py metadata_pad(size)
metadata_pad(size) ==
    IF size <= 240 THEN 240 - size ELSE CeilDiv(size, 8) * 8 - size

\* the padding to the next multiple of 0x400
pad_to_next_sectorHalf(position, chunk_size) ==
    1024 * CeilDiv(position + chunk_size, 1024) - (position + chunk_size)

\* tools.py pad_to_next_sector(position)(chunk_size)
pad_to_next_sector(position, chunk_size) ==
    2048 * CeilDiv(position + chunk_size, 2048) - (position + chunk_size)

\* self._padding(size) when _padding is a function
CallPadding(padding, size) ==
    IF padding.fn = "metadata_pad" THEN metadata_pad(size)
    ELSE pad_to_next_sector(padding.arg, size)

\* the payload argument of UsmChunk: bytes or a list of pages
BytesPayload(b) == [list |-> FALSE, bytes |-> b, pages |-> <<>>]
PagesPayload(pages) == [list |-> TRUE, bytes |-> <<>>, pages |-> pages]

\* UsmChunk.__init__ with payload_offset and encoding left at their defaults
UsmChunk(chunk_type, payload_type, payload, frame_rate, frame_time, padding, channel_number) ==
    [chunk_type |-> chunk_type, payload_type |-> payload_type,
     payload |-> payload, frame_rate |-> frame_rate,
     frame_time |-> frame_time, padding |-> padding,
     channel_number |-> channel_number, payload_offset |-> 24]

\* the payload as pack() writes it: [err, bytes]
EncodedPayload(chunk, korder) ==
    IF chunk.payload.list THEN pack_pages(chunk.payload.pages, korder, 0)
    ELSE [err |-> "", bytes |-> chunk.payload.bytes]

\* lines 37-44: the padding of a chunk whose payload packs to size bytes
PaddingOf(chunk, size) ==
    IF chunk.padding.fn = "int" THEN chunk.padding.arg
    ELSE CallPadding(chunk.padding, 32 + size)

\* UsmChunk.padding with the payload packed: [err, n]
PaddingWith(chunk, payload) ==
    IF chunk.padding.fn = "int" THEN [err |-> "", n |-> chunk.padding.arg]
    ELSE IF payload.err /= "" THEN [err |-> payload.err, n |-> 0]
    ELSE [err |-> "", n |-> PaddingOf(chunk, Len(payload.bytes))]

\* UsmChunk.padding (property): [err, n]
UsmChunkPadding(chunk, korder) == PaddingWith(chunk, EncodedPayload(chunk, korder))

\* a faulty variant of __len__, used to test that the claims about the
\* length depend on it: the header counted as 0x18 bytes
LenWithShortHeader(chunk, payload) ==
    IF payload.err /= "" THEN [err |-> payload.err, n |-> 0]
    ELSE [err |-> "",
          n |-> 24 + Len(payload.bytes) + PaddingOf(chunk, Len(payload.bytes))]

\* lines 46-58: __len__ with the payload packed: [err, n]
LenWith(chunk, payload) ==
    IF payload.err /= "" THEN [err |-> payload.err, n |-> 0]
    ELSE [err |-> "",
          n |-> 32 + Len(payload.bytes) + PaddingOf(chunk, Len(payload.bytes))]

\* UsmChunk.__len__: [err, n]
UsmChunkLen(chunk, korder) == LenWith(chunk, EncodedPayload(chunk, korder))

\* lines 156-175: the header, the payload packed and the padding; to_bytes
\* raises OverflowError for a value that does not fit the field
PackWith(chunk, payload, padding) ==
    IF payload.err /= "" THEN [err |-> payload.err, bytes |-> <<>>]
    ELSE IF \/ ~InRange(24 + Len(payload.bytes) + padding, 4, FALSE)
            \/ ~InRange(padding, 2, FALSE)
            \/ ~InRange(chunk.channel_number, 1, FALSE)
            \/ ~InRange(chunk.payload_type, 1, FALSE)
            \/ ~InRange(chunk.frame_time, 4, FALSE)
            \/ ~InRange(chunk.frame_rate, 4, FALSE)
    THEN [err |-> "OverflowError", bytes |-> <<>>]
    ELSE [err |-> "",
          bytes |-> chunk.chunk_type
                    \o ToBytesBE(24 + Len(payload.bytes) + padding, 4)
                    \o Zeros(1)
                    \o ToBytesBE(24, 1)
                    \o ToBytesBE(padding, 2)
                    \o ToBytesBE(chunk.channel_number, 1)
                    \o Zeros(2)
                    \o ToBytesBE(chunk.payload_type, 1)
                    \o ToBytesBE(chunk.frame_time, 4)
                    \o ToBytesBE(chunk.frame_rate, 4)
                    \o Zeros(8)
                    \o payload.bytes
                    \o Zeros(padding)]

\* lines 146-155: the payload packed, and the padding for its size
PackPayload(chunk, payload) ==
    PackWith(chunk, payload, PaddingOf(chunk, Len(payload.bytes)))

\* UsmChunk.pack: [err, bytes]
UsmChunkPack(chunk, korder) == PackPayload(chunk, EncodedPayload(chunk, korder))

\* tools.is_payload_list_pages(payload[:4]): the payload is a page table
\* when its first four bytes are "@UTF"
is_payload_list_pages(payload) == Slice(payload, 0, 4) = StrUTF

\* chunk[0xF] & 0x3
And3(b) == b % 4

\* lines 122-144: the chunk made of the header fields and the payload,
\* pages being get_pages(payload_raw)
ChunkRead(chunk, payload_begin, payload_raw, pages) ==
    IF Len(chunk) < 16
    THEN [err |-> "IndexError",
          chunk |-> UsmChunk(<<>>, 0, BytesPayload(<<>>), 0, 0, PadInt(0), 0)]
    ELSE IF Slice(chunk, 0, 4) \notin ChunkTypeValues
    THEN [err |-> "Invalid signature",
          chunk |-> UsmChunk(<<>>, 0, BytesPayload(<<>>), 0, 0, PadInt(0), 0)]
    ELSE IF is_payload_list_pages(Slice(payload_raw, 0, 4)) /\ pages.err /= ""
    THEN [err |-> pages.err,
          chunk |-> UsmChunk(<<>>, 0, BytesPayload(<<>>), 0, 0, PadInt(0), 0)]
    ELSE [err |-> "",
          chunk |-> [chunk_type |-> Slice(chunk, 0, 4),
                     payload_type |-> And3(At(chunk, 15)),
                     payload |-> IF is_payload_list_pages(Slice(payload_raw, 0, 4))
                                 THEN PagesPayload(pages.pages)
                                 ELSE BytesPayload(payload_raw),
                     frame_rate |-> FromBytesBE(Slice(chunk, 20, 24)),
                     frame_time |-> FromBytesBE(Slice(chunk, 16, 20)),
                     padding |-> PadInt(FromBytesBE(Slice(chunk, 10, 12))),
                     channel_number |-> At(chunk, 12),
                     payload_offset |-> payload_begin]]

\* lines 116-121: the payload cut out of the chunk
PayloadRead(chunk, payload_begin, payload_raw) ==
    ChunkRead(chunk, payload_begin, payload_raw, get_pages(payload_raw))

\* lines 82-115: where the payload begins and ends
PayloadAt(chunk, payload_begin, payload_size) ==
    PayloadRead(chunk, payload_begin,
                PySlice(chunk, payload_begin, payload_begin + payload_size))

\* UsmChunk.from_bytes: [err, chunk]; chunk[0x9], chunk[0xC] and chunk[0xF]
\* raise IndexError on a chunk too short to hold them
UsmChunkFromBytes(chunk) ==
    IF Len(chunk) < 16
    THEN [err |-> "IndexError",
          chunk |-> UsmChunk(<<>>, 0, BytesPayload(<<>>), 0, 0, PadInt(0), 0)]
    ELSE PayloadAt(chunk, 8 + At(chunk, 9),
                   FromBytesBE(Slice(chunk, 4, 8)) - FromBytesBE(Slice(chunk, 10, 12))
                   - At(chunk, 9))

----------------------------------------------------------------------------
(* usm/media: UsmVideo and UsmAudio, GenericVideo and GenericAudio *)

\* the names of the pages and elements the muxer reads or writes
StrCRIUSF_DIR_STREAM == <<67, 82, 73, 85, 83, 70, 95, 68, 73, 82, 95, 83, 84, 82, 69, 65, 77>>
StrFmtver == <<102, 109, 116, 118, 101, 114>>
StrFilesize == <<102, 105, 108, 101, 115, 105, 122, 101>>
StrDatasize == <<100, 97, 116, 97, 115, 105, 122, 101>>
StrStmid == <<115, 116, 109, 105, 100>>
StrChno == <<99, 104, 110, 111>>
StrMinchk == <<109, 105, 110, 99, 104, 107>>
StrMinbuf == <<109, 105, 110, 98, 117, 102>>
StrAvbps == <<97, 118, 98, 112, 115>>
StrFramerateN == <<102, 114, 97, 109, 101, 114, 97, 116, 101, 95, 110>>
StrFramerateD == <<102, 114, 97, 109, 101, 114, 97, 116, 101, 95, 100>>
StrVIDEO_SEEKINFO == <<86, 73, 68, 69, 79, 95, 83, 69, 69, 75, 73, 78, 70, 79>>
StrOfsByte == <<111, 102, 115, 95, 98, 121, 116, 101>>
StrOfsFrmid == <<111, 102, 115, 95, 102, 114, 109, 105, 100>>
StrNumSkip == <<110, 117, 109, 95, 115, 107, 105, 112>>
StrResv == <<114, 101, 115, 118>>
StrDotUsm == <<46, 117, 115, 109>>

\* "#CONTENTS END   ===============" and a zero byte
StrContentsEnd ==
    <<35, 67, 79, 78, 84, 69, 78, 84, 83, 32, 69, 78, 68, 32, 32, 32,
      61, 61, 61, 61, 61, 61, 61, 61, 61, 61, 61, 61, 61, 61, 61, 0>>

\* "#HEADER END     ===============" and "#METADATA END   ===============",
\* each with a zero byte
StrHeaderEnd ==
    <<35, 72, 69, 65, 68, 69, 82, 32, 69, 78, 68, 32, 32, 32, 32, 32,
      61, 61, 61, 61, 61, 61, 61, 61, 61, 61, 61, 61, 61, 61, 61, 0>>

StrMetadataEnd ==
    <<35, 77, 69, 84, 65, 68, 65, 84, 65, 32, 69, 78, 68, 32, 32, 32,
      61, 61, 61, 61, 61, 61, 61, 61, 61, 61, 61, 61, 61, 61, 61, 0>>

\* page.update(name, element_type, element) on a page that accepts it
Updated(page, name, element_type, element) ==
    update(page, name, element_type, element).page

\* the header_page of a channel: a UsmPage, or the list of pages Usm.open
\* takes from the HEADER chunk
HeaderPage(page) == [list |-> FALSE, page |-> page, pages |-> <<>>]
HeaderList(pages) == [list |-> TRUE, page |-> UsmPage(<<>>), pages |-> pages]

\* Optional[List[UsmPage]]
NoPages == [none |-> TRUE, pages |-> <<>>]
SomePages(pages) == [none |-> FALSE, pages |-> pages]

\* GenericVideo.__init__; stream is what the generator yields, a sequence
\* of [data, key]
GenericVideo(stream, crid_page, header_page, length, channel_number, metadata_pages) ==
    [stream |-> stream, crid_page |-> crid_page, header_page |-> header_page,
     length |-> length, channel_number |-> channel_number,
     metadata_pages |-> metadata_pages]

\* GenericAudio.__init__; an audio packet is no keyframe
GenericAudio(stream, crid_page, header_page, length, channel_number, metadata_pages) ==
    [stream |-> stream, crid_page |-> crid_page, header_page |-> header_page,
     length |-> length, channel_number |-> channel_number,
     metadata_pages |-> metadata_pages]

\* the channels left in the order the caller passed them
SortMediaAsGiven(medias) == medias

\* list.sort() with UsmMedia.__lt__: by channel_number, equal ones keep
\* their order
RECURSIVE SortMedia(_)
SortMedia(medias) ==
    IF Len(medias) <= 1 THEN medias
    ELSE LET rest == SortMedia(Tail(medias))
             before == SelectSeq(rest, LAMBDA m : m.channel_number < Head(medias).channel_number)
             after == SelectSeq(rest, LAMBDA m : m.channel_number >= Head(medias).channel_number)
         IN  before \o <<Head(medias)>> \o after

\* the set of keys of a page list in the order "for key in keys" visits
\* it: the insertion order or its reverse, two of the orders a set may have
SetOrder(pages, rev) ==
    IF Len(pages) = 0 THEN <<>>
    ELSE LET keys == [j \in 1..Len(pages[1].dict) |-> pages[1].dict[j].key]
         IN  IF rev THEN Reverse(keys) ELSE keys

ChunkKeyOrder(chunk, rev) == SetOrder(chunk.payload.pages, rev)

\* protocols.py lines 155-160: int(framerate * 100)
VideoFrameRate(header_page) ==
    IF PageHas(header_page, StrFramerateN) /\ PageHas(header_page, StrFramerateD)
    THEN (PageGet(header_page, StrFramerateN).val.v[1] * 100)
         \div PageGet(header_page, StrFramerateD).val.v[1]
    ELSE 3000

\* int(i * 99.9)
FrameTime(i) == (i * 999) \div 10

\* protocols.py lines 165-167 and 283-285
StreamPadding(payload) ==
    IF Len(payload) % 32 /= 0 THEN 32 - (Len(payload) % 32) ELSE 0

\* the chunks for packet i with the SECTION_END chunk ahead of the last
\* STREAM chunk
UsmVideoChunksEndFirst(video, i) ==
    LET payload == video.stream[i + 1].data
        rate == VideoFrameRate(video.header_page.page)
        stream == UsmChunk(VIDEO, STREAM, BytesPayload(payload), rate,
                           FrameTime(i), PadInt(StreamPadding(payload)),
                           video.channel_number)
    IN  IF i /= video.length - 1 THEN <<stream>>
        ELSE <<UsmChunk(VIDEO, SECTION_END, BytesPayload(StrContentsEnd), rate,
                        0, PadInt(0), video.channel_number),
               stream>>

\* UsmVideo.chunks: the chunks yielded for packet i (0-based)
UsmVideoChunks(video, i) ==
    LET payload == video.stream[i + 1].data
        rate == VideoFrameRate(video.header_page.page)
        stream == UsmChunk(VIDEO, STREAM, BytesPayload(payload), rate,
                           FrameTime(i), PadInt(StreamPadding(payload)),
                           video.channel_number)
    IN  IF i /= video.length - 1 THEN <<stream>>
        ELSE <<stream,
               UsmChunk(VIDEO, SECTION_END, BytesPayload(StrContentsEnd), rate,
                        0, PadInt(0), video.channel_number)>>

\* UsmAudio.chunks: the chunks yielded for packet i (0-based)
UsmAudioChunks(audio, i) ==
    LET payload == audio.stream[i + 1].data
        stream == UsmChunk(AUDIO, STREAM, BytesPayload(payload), 3000,
                           FrameTime(i), PadInt(StreamPadding(payload)),
                           audio.channel_number)
    IN  IF i /= audio.length - 1 THEN <<stream>>
        ELSE <<stream,
               UsmChunk(AUDIO, SECTION_END, BytesPayload(StrContentsEnd), 3000,
                        0, PadInt(0), audio.channel_number)>>

----------------------------------------------------------------------------
(* usm/usm.py: the muxer *)

SetMax(S) == CHOOSE m \in S : \A x \in S : x <= m

\* s.split("/")[-1]
LastSegment(s) ==
    LET slashes == {i \in 1..Len(s) : s[i] = 47}
    IN  IF slashes = {} THEN s ELSE SubSeq(s, SetMax(slashes) + 1, Len(s))

\* s.split(".")[0]
FirstSegment(s) ==
    LET dots == {i \in 1..Len(s) : s[i] = 46}
    IN  IF dots = {} THEN s
        ELSE SubSeq(s, 1, (CHOOSE m \in dots : \A x \in dots : m <= x) - 1)

\* Usm.__init__: [err, usm]
UsmNew(video, audio, usm_crid, version) ==
    [err |-> IF Len(video) = 0 THEN "No videos given." ELSE "",
     usm |-> [videos |-> SortMedia(video),
              audios |-> SortMedia(audio),
              version |-> version,
              usm_crid |-> usm_crid,
              max_packet_size |-> 1,
              max_frame |-> SetMax({0} \cup {video[i].length : i \in 1..Len(video)}
                                       \cup {audio[i].length : i \in 1..Len(audio)})]]

\* Usm.filename
UsmFilename(usm) ==
    IF ~usm.usm_crid.none
    THEN LastSegment(PageGet(usm.usm_crid.pages[1], StrFilename).val.v)
    ELSE FirstSegment(LastSegment(PageGet(usm.videos[1].crid_page, StrFilename).val.v))
         \o StrDotUsm

\* the sum of int(media.crid_page["avbps"].val)
RECURSIVE SumAvbps(_)
SumAvbps(medias) ==
    IF Len(medias) = 0 THEN 0
    ELSE PageGet(Head(medias).crid_page, StrAvbps).val.v[1] + SumAvbps(Tail(medias))

\* round(max_packet_size * 1.98746), raised to a multiple of 0x10
Minbuf(max_packet_size) ==
    LET minbuf == (max_packet_size * 198746 + 50000) \div 100000
    IN  minbuf + (IF minbuf % 16 /= 0 THEN 16 - (minbuf % 16) ELSE 0)

\* usm_crid_page line 105: the filesize element
CridFilesize(size_after_crid_part) == 2048 + size_after_crid_part

\* Usm.usm_crid_page(size_after_crid_part)
usm_crid_page(usm, size_after_crid_part) ==
    IF ~usm.usm_crid.none THEN usm.usm_crid.pages[1]
    ELSE LET p0 == UsmPage(StrCRIUSF_DIR_STREAM)
             p1 == Updated(p0, StrFmtver, I32, PyInt(usm.version))
             p2 == Updated(p1, StrFilename, STRING_T, PyStr(UsmFilename(usm)))
             p3 == Updated(p2, StrFilesize, I32, PyInt(CridFilesize(size_after_crid_part)))
             p4 == Updated(p3, StrDatasize, I32, PyInt(0))
             p5 == Updated(p4, StrStmid, I32, PyInt(0))
             p6 == Updated(p5, StrChno, I16, PyInt(-1))
             p7 == Updated(p6, StrMinchk, I16, PyInt(1))
             p8 == Updated(p7, StrMinbuf, I32, PyInt(Minbuf(usm.max_packet_size)))
         IN  Updated(p8, StrAvbps, I32,
                     PyInt(SumAvbps(usm.videos) + SumAvbps(usm.audios)))

\* _pack_stream before its loop: the scratch file, keyframe_index_and_offsets
\* (in the order of the appends), the iterators not yet finished, those
\* finished in the current round, and the chunks written so far
PackStreamStart(videos, audios) ==
    [file |-> <<>>, keyframes |-> <<>>, max_packet_size |-> 1,
     videos_iter |-> [i \in 1..Len(videos) |-> i],
     audios_iter |-> [i \in 1..Len(audios) |-> i],
     finished_video_iters |-> {}, finished_audio_iters |-> {},
     written |-> <<>>, err |-> ""]

\* lines 658-659 and 669-670: max_packet_size = max(len(chunk), ...) and
\* stream_file.write(packed), packed being chunk.pack()
WriteChunk(ps, chunk, packed, index) ==
    IF packed.err /= "" THEN [ps EXCEPT !.err = packed.err]
    ELSE [ps EXCEPT !.max_packet_size = Max(UsmChunkLen(chunk, <<>>).n, @),
                    !.file = @ \o packed.bytes,
                    !.written = Append(@, [chunk |-> chunk,
                                           offset |-> Len(ps.file),
                                           index |-> index])]

\* lines 657-659 and 668-670: for chunk in chunks
RECURSIVE WriteChunks(_, _, _)
WriteChunks(ps, chunks, index) ==
    IF Len(chunks) = 0 \/ ps.err /= "" THEN ps
    ELSE WriteChunks(WriteChunk(ps, Head(chunks), UsmChunkPack(Head(chunks), <<>>),
                                index),
                     Tail(chunks), index)

\* lines 652-655: if is_keyframe, append (index, stream_file.tell())
MarkKeyframe(ps, video, index) ==
    IF video.stream[index + 1].key
    THEN [ps EXCEPT !.keyframes =
             Append(@, [channel_number |-> video.channel_number,
                        index |-> index,
                        offset |-> Len(ps.file)])]
    ELSE ps

\* lines 649-662: the video generators in round index, from the k-th on.
\* The first next() runs the head of UsmVideo.chunks, whose
\* header_page.get raises AttributeError on a header that is no UsmPage.
RECURSIVE PackVideos(_, _, _, _)
PackVideos(ps, videos, k, index) ==
    IF k > Len(ps.videos_iter) \/ ps.err /= "" THEN ps
    ELSE IF videos[ps.videos_iter[k]].header_page.list
    THEN [ps EXCEPT !.err = "AttributeError"]
    ELSE IF index >= Len(videos[ps.videos_iter[k]].stream)
    THEN PackVideos([ps EXCEPT !.finished_video_iters = @ \cup {k}],
                    videos, k + 1, index)
    ELSE PackVideos(WriteChunks(MarkKeyframe(ps, videos[ps.videos_iter[k]], index),
                                UsmVideoChunks(videos[ps.videos_iter[k]], index),
                                index),
                    videos, k + 1, index)

\* lines 665-673: the audio generators in round index, from the k-th on
RECURSIVE PackAudios(_, _, _, _)
PackAudios(ps, audios, k, index) ==
    IF k > Len(ps.audios_iter) \/ ps.err /= "" THEN ps
    ELSE IF index >= Len(audios[ps.audios_iter[k]].stream)
    THEN PackAudios([ps EXCEPT !.finished_audio_iters = @ \cup {k}],
                    audios, k + 1, index)
    ELSE PackAudios(WriteChunks(ps, UsmAudioChunks(audios[ps.audios_iter[k]], index),
                                index),
                    audios, k + 1, index)

\* [x for i, x in enumerate(iters) if i not in finished]
RECURSIVE DropFinished(_, _, _)
DropFinished(iters, finished, k) ==
    IF k > Len(iters) THEN <<>>
    ELSE (IF k \in finished THEN <<>> ELSE <<iters[k]>>)
         \o DropFinished(iters, finished, k + 1)

\* lines 675-681: the finished generators removed
RemoveFinished(ps) ==
    IF ps.err /= "" THEN ps
    ELSE [ps EXCEPT
             !.videos_iter = DropFinished(@, ps.finished_video_iters, 1),
             !.audios_iter = DropFinished(@, ps.finished_audio_iters, 1)]

\* one round of the loop of _pack_stream, lines 644-681
PackStreamRound(ps, videos, audios, index) ==
    RemoveFinished(
        PackAudios(
            PackVideos([ps EXCEPT !.finished_video_iters = {},
                                  !.finished_audio_iters = {}],
                       videos, 1, index),
            audios, 1, index))

\* the first error in a sequence of errors, "" when there is none
RECURSIVE FirstErr(_)
FirstErr(errs) ==
    IF Len(errs) = 0 THEN ""
    ELSE IF Head(errs) /= "" THEN Head(errs)
    ELSE FirstErr(Tail(errs))

\* the sum of len(chunk) over a sequence of chunks
RECURSIVE SumLen(_, _)
SumLen(chunks, rev) ==
    IF Len(chunks) = 0 THEN 0
    ELSE UsmChunkLen(Head(chunks), ChunkKeyOrder(Head(chunks), rev)).n
         + SumLen(Tail(chunks), rev)

\* lines 467-489: the HEADER chunk of a channel
HeaderChunk(chunk_type, media, padding) ==
    UsmChunk(chunk_type, HEADER, PagesPayload(<<media.header_page.page>>),
             30, 0, PadInt(padding), media.channel_number)

\* len(chunk) of a HEADER chunk: pack_pages reads pages[0].name, which a
\* header that is no UsmPage does not have
HeaderChunkErr(chunk_type, media, padding, rev) ==
    IF media.header_page.list THEN "AttributeError"
    ELSE UsmChunkLen(HeaderChunk(chunk_type, media, padding),
                     ChunkKeyOrder(HeaderChunk(chunk_type, media, padding), rev)).err

\* lines 493-516 and 573-599: a SECTION_END chunk of a channel
EndChunk(chunk_type, payload, media) ==
    UsmChunk(chunk_type, SECTION_END, BytesPayload(payload), 30, 0, PadInt(0),
             media.channel_number)

\* lines 537-543: a VIDEO_SEEKINFO page
SeekPage(index, offset) ==
    Updated(Updated(Updated(Updated(UsmPage(StrVIDEO_SEEKINFO),
        StrOfsByte, I64, PyInt(offset)),
        StrOfsFrmid, U32, PyInt(index)),
        StrNumSkip, U16, PyInt(0)),
        StrResv, U16, PyInt(0))

\* lines 533-545: the metadata pages of a video
MetadataPages(video, keyframes) ==
    IF ~video.metadata_pages.none THEN video.metadata_pages.pages
    ELSE LET own == SelectSeq(keyframes,
                        LAMBDA e : e.channel_number = video.channel_number)
         IN  [j \in 1..Len(own) |-> SeekPage(own[j].index, own[j].offset)]

\* lines 547-554 and 562-569: a METADATA chunk
MetadataChunk(chunk_type, pages, media) ==
    UsmChunk(chunk_type, METADATA, PagesPayload(pages), 30, 0, PadMetadata,
             media.channel_number)

\* line 612: what is added to the scratch offset
OfsByteShift(current_position, metadata_section_size) ==
    2048 + current_position + metadata_section_size

\* lines 610-613: for metadata in payload
ShiftPages(pages, shift) ==
    [j \in 1..Len(pages) |->
        Updated(pages[j], StrOfsByte, I64,
                PyInt(PageGet(pages[j], StrOfsByte).val.v[1] + shift))]

\* lines 467-516: the HEADER chunks and the header-end chunks
HeaderSection(videos, audios) ==
    [i \in 1..Len(videos) |-> HeaderChunk(VIDEO, videos[i], 24)]
    \o [i \in 1..Len(audios) |-> HeaderChunk(AUDIO, audios[i], 8)]
    \o [i \in 1..Len(videos) |-> EndChunk(VIDEO, StrHeaderEnd, videos[i])]
    \o [i \in 1..Len(audios) |-> EndChunk(AUDIO, StrHeaderEnd, audios[i])]

\* lines 476 and 488: the first len(chunk) of a HEADER chunk that raises
HeaderSectionErr(videos, audios, rev) ==
    FirstErr([i \in 1..Len(videos) |-> HeaderChunkErr(VIDEO, videos[i], 24, rev)]
             \o [i \in 1..Len(audios) |-> HeaderChunkErr(AUDIO, audios[i], 8, rev)])

\* lines 532-556: metadata_section_chunks_vid
VideoMetadataChunks(videos, keyframes) ==
    [i \in 1..Len(videos) |->
        MetadataChunk(VIDEO, MetadataPages(videos[i], keyframes), videos[i])]

\* lines 558-571: metadata_section_chunks_aud
AudioMetadataChunks(audios) ==
    [i \in 1..Len(audios) |->
        MetadataChunk(AUDIO, audios[i].metadata_pages.pages, audios[i])]

\* the channels that have metadata pages
WithMetadata(medias) == SelectSeq(medias, LAMBDA m : ~m.metadata_pages.none)

\* lines 573-599: metadata_section_chunks_sec_end
MetadataEndChunks(videos, audios) ==
    [i \in 1..Len(videos) |-> EndChunk(VIDEO, StrMetadataEnd, videos[i])]
    \o [i \in 1..Len(audios) |-> EndChunk(AUDIO, StrMetadataEnd, audios[i])]

\* lines 554 and 569: the first len(chunk) of a METADATA chunk that raises
MetadataErr(chunks, rev) ==
    FirstErr([i \in 1..Len(chunks) |->
                 UsmChunkLen(chunks[i], ChunkKeyOrder(chunks[i], rev)).err])

\* lines 603-615: the video METADATA chunks with ofs_byte shifted
ShiftedChunks(vid, shift) ==
    [i \in 1..Len(vid) |-> [vid[i] EXCEPT !.payload.pages = ShiftPages(@, shift)]]

\* lines 603-621: what the generator yields once the sizes are known, and
\* the videos, whose metadata pages are the pages shifted
YieldHeaderMetadata(videos, header, vid, aud, sec_end, current_position, metadata_section_size, err) ==
    IF err /= "" THEN [err |-> err, chunks |-> <<>>, size |-> 0, videos |-> videos]
    ELSE [err |-> "",
          chunks |-> header
                     \o ShiftedChunks(vid, OfsByteShift(current_position,
                                                        metadata_section_size))
                     \o aud \o sec_end,
          size |-> current_position + metadata_section_size,
          videos |-> [i \in 1..Len(videos) |->
                        IF videos[i].metadata_pages.none THEN videos[i]
                        ELSE [videos[i] EXCEPT !.metadata_pages.pages =
                                 ShiftPages(@, OfsByteShift(current_position,
                                                            metadata_section_size))]]]

\* current_position and metadata_section_size summed over the chunks
SizeHeaderMetadata(videos, rev, header, vid, aud, sec_end, header_err) ==
    YieldHeaderMetadata(videos, header, vid, aud, sec_end,
                        SumLen(header, rev), SumLen(vid \o aud \o sec_end, rev),
                        FirstErr(<<header_err, MetadataErr(vid \o aud, rev)>>))

\* _generate_header_metadata_chunks, run to its end as
\* _generate_prestream_chunks does: [err, chunks, size, videos]
GenerateHeaderMetadataChunks(videos, audios, keyframes, rev) ==
    SizeHeaderMetadata(videos, rev,
                       HeaderSection(videos, audios),
                       VideoMetadataChunks(videos, keyframes),
                       AudioMetadataChunks(WithMetadata(audios)),
                       MetadataEndChunks(videos, WithMetadata(audios)),
                       HeaderSectionErr(videos, audios, rev))

\* lines 290-309: the CRID chunk before the chunks hm holds
PrestreamChunks(usm, stream_filesize, hm) ==
    IF hm.err /= "" THEN [err |-> hm.err, chunks |-> <<>>, videos |-> usm.videos]
    ELSE [err |-> "",
          chunks |-> <<UsmChunk(INFO, HEADER,
                                PagesPayload(
                                    <<usm_crid_page(usm, 2048 + hm.size + stream_filesize)>>
                                    \o [i \in 1..Len(usm.videos) |-> usm.videos[i].crid_page]
                                    \o [i \in 1..Len(usm.audios) |-> usm.audios[i].crid_page]),
                                30, 0, PadToNextSector(0), 0)>>
                     \o hm.chunks,
          videos |-> hm.videos]

\* Usm._generate_prestream_chunks, run to its end: [err, chunks, videos]
GeneratePrestreamChunks(usm, stream_filesize, keyframes, rev) ==
    PrestreamChunks(usm, stream_filesize,
                    GenerateHeaderMetadataChunks(usm.videos, usm.audios, keyframes, rev))

\* Usm.stream after the pre-stream chunks: stream_file.read(0x800) at pos
ReadBlock(file, pos) == Slice(file, pos, pos + 2048)

----------------------------------------------------------------------------
(* usm/usm.py and usm/tools.py: the demuxer *)

\* tools.is_valid_chunk
is_valid_chunk(signature) ==
    /\ Len(signature) >= 4
    /\ Slice(signature, 0, 4) \in {INFO, VIDEO, AUDIO}

\* tools.is_usm
is_usm(magic) == Len(magic) >= 4 /\ Slice(magic, 0, 4) = INFO

\* tools.chunk_size_and_padding: [err, size, padding]; header[9] raises
\* IndexError on a header too short to hold it
chunk_size_and_padding(header) ==
    LET size == FromBytesBE(Slice(header, 4, 8))
        padding_size == FromBytesBE(Slice(header, 10, 12))
    IN  IF ~is_valid_chunk(Slice(header, 0, 4))
        THEN [err |-> "Invalid signature", size |-> 0, padding |-> 0]
        ELSE IF Len(header) < 10
        THEN [err |-> "IndexError", size |-> 0, padding |-> 0]
        ELSE IF size - (At(header, 9) + padding_size) < 0
        THEN [err |-> "Negative size", size |-> 0, padding |-> 0]
        ELSE [err |-> "", size |-> size - (At(header, 9) + padding_size),
              padding |-> padding_size]

\* UsmChannel(stream=[], header=UsmPage("")), its metadata None; header and
\* metadata become the payload of the channel's HEADER and METADATA chunk
UsmChannel(channel_number) ==
    [channel_number |-> channel_number, stream |-> <<>>,
     header |-> HeaderPage(UsmPage(<<>>)),
     metadata |-> [none |-> TRUE, payload |-> BytesPayload(<<>>)]]

\* channels[channel_number] of a defaultdict held as the sequence of its
\* values in insertion order: the position of the channel, made if missing
WithChannel(channels, channel_number) ==
    IF \E k \in 1..Len(channels) : channels[k].channel_number = channel_number
    THEN channels
    ELSE Append(channels, UsmChannel(channel_number))

ChannelAt(channels, channel_number) ==
    CHOOSE k \in 1..Len(channels) : channels[k].channel_number = channel_number

\* len(chunk.payload)
PayloadLen(payload) ==
    IF payload.list THEN Len(payload.pages) ELSE Len(payload.bytes)

\* lines 413-431 and 433-451: a VIDEO or AUDIO chunk at offset
ChannelsAfter(channels, chunk, offset) ==
    LET made == WithChannel(channels, chunk.channel_number)
        k == ChannelAt(made, chunk.channel_number)
    IN  IF chunk.payload_type = STREAM
        THEN [made EXCEPT ![k].stream =
                 Append(@, [offset |-> offset + chunk.payload_offset,
                            size |-> PayloadLen(chunk.payload)])]
        ELSE IF chunk.payload_type = SECTION_END THEN channels
        ELSE IF chunk.payload_type = HEADER
        THEN [made EXCEPT ![k].header = HeaderList(chunk.payload.pages)]
        ELSE [made EXCEPT ![k].metadata =
                 [none |-> FALSE, payload |-> chunk.payload]]

\* lines 402-453: the chunk read at acc.pos told apart by its type
DispatchChunk(acc, chunk) ==
    IF chunk.chunk_type = INFO
    THEN IF chunk.payload.list
         THEN [acc EXCEPT !.crids = @ \o chunk.payload.pages]
         ELSE acc
    ELSE IF chunk.chunk_type = VIDEO
    THEN [acc EXCEPT !.video_ch = ChannelsAfter(@, chunk, acc.pos)]
    ELSE IF chunk.chunk_type = AUDIO
    THEN [acc EXCEPT !.audio_ch = ChannelsAfter(@, chunk, acc.pos)]
    ELSE acc

\* lines 395-401: the chunk read, and the position after its padding
ReadChunk(acc, usmfile, sp, read) ==
    IF sp.err /= "" THEN [acc EXCEPT !.err = sp.err]
    ELSE IF read.err /= "" THEN [acc EXCEPT !.err = read.err]
    ELSE [DispatchChunk(acc, read.chunk) EXCEPT
             !.pos = Min(acc.pos + sp.size + 32, Len(usmfile)) + sp.padding]

\* lines 389-394: the size and padding peeked from the next 0x20 bytes
PeekChunk(acc, usmfile, sp) ==
    ReadChunk(acc, usmfile, sp,
              UsmChunkFromBytes(Slice(usmfile, acc.pos, acc.pos + sp.size + 32)))

\* one round of the loop of _process_chunks, at position acc.pos; acc is
\* [crids, video_ch, audio_ch, pos, err]
ProcessChunk(acc, usmfile) ==
    PeekChunk(acc, usmfile,
              chunk_size_and_padding(Slice(usmfile, acc.pos, acc.pos + 32)))

\* _process_chunks: while filesize > usmfile.tell()
RECURSIVE ProcessChunks(_, _)
ProcessChunks(acc, usmfile) ==
    IF acc.err /= "" \/ Len(usmfile) <= acc.pos THEN acc
    ELSE ProcessChunks(ProcessChunk(acc, usmfile), usmfile)

process_chunks(usmfile) ==
    ProcessChunks([crids |-> <<>>, video_ch |-> <<>>, audio_ch |-> <<>>,
                   pos |-> 0, err |-> ""], usmfile)

\* page.py keyframes_from_seek_pages: [err, frames]; a payload of bytes
\* yields ints, which have no name
RECURSIVE SeekFrames(_)
SeekFrames(seek_pages) ==
    IF Len(seek_pages) = 0 THEN [err |-> "", frames |-> <<>>]
    ELSE IF Head(seek_pages).name /= StrVIDEO_SEEKINFO
    THEN [err |-> "Page name is not 'VIDEO_SEEKINFO'", frames |-> <<>>]
    ELSE IF ~PageHas(Head(seek_pages), StrOfsFrmid)
    THEN [err |-> "KeyError", frames |-> <<>>]
    ELSE LET rest == SeekFrames(Tail(seek_pages))
         IN  [err |-> rest.err,
              frames |-> <<PageGet(Head(seek_pages), StrOfsFrmid).val.v[1]>>
                         \o rest.frames]

keyframes_from_seek_pages(metadata) ==
    IF metadata.none THEN [err |-> "", frames |-> <<>>]
    ELSE IF ~metadata.payload.list
    THEN [err |-> IF Len(metadata.payload.bytes) = 0 THEN "" ELSE "AttributeError",
          frames |-> <<>>]
    ELSE SeekFrames(metadata.payload.pages)

\* tools.video_sink: what the generator yields, in order
video_sink(usmfile, offsets_and_sizes, keyframes) ==
    [i \in 1..Len(offsets_and_sizes) |->
        [data |-> Slice(usmfile, offsets_and_sizes[i].offset,
                        offsets_and_sizes[i].offset + offsets_and_sizes[i].size),
         key |-> \E j \in 1..Len(keyframes) : keyframes[j] = i - 1]]

\* tools.audio_sink: what the generator yields, in order
audio_sink(usmfile, offsets_and_sizes) ==
    [i \in 1..Len(offsets_and_sizes) |->
        [data |-> Slice(usmfile, offsets_and_sizes[i].offset,
                        offsets_and_sizes[i].offset + offsets_and_sizes[i].size),
         key |-> FALSE]]

\* the value of an int element that equals n
ValIs(element, n) == element.val.py = "int" /\ element.val.v[1] = n

\* lines 162-167 and 189-194: [page for page in crids if ...]: [err, crid];
\* page.get() of a missing element is None, whose val is an AttributeError
RECURSIVE CridsOf(_, _, _)
CridsOf(crids, channel_number, stmid) ==
    IF Len(crids) = 0 THEN [err |-> "", crid |-> <<>>]
    ELSE IF ~PageHas(Head(crids), StrChno)
    THEN [err |-> "AttributeError", crid |-> <<>>]
    ELSE IF ~ValIs(PageGet(Head(crids), StrChno), channel_number)
    THEN CridsOf(Tail(crids), channel_number, stmid)
    ELSE IF ~PageHas(Head(crids), StrStmid)
    THEN [err |-> "AttributeError", crid |-> <<>>]
    ELSE LET rest == CridsOf(Tail(crids), channel_number, stmid)
         IN  IF ValIs(PageGet(Head(crids), StrStmid), stmid)
             THEN [err |-> rest.err, crid |-> <<Head(crids)>> \o rest.crid]
             ELSE rest

\* line 208: [page for page in crids if page.get("chno").val == -1]
RECURSIVE UsmCridsOf(_)
UsmCridsOf(crids) ==
    IF Len(crids) = 0 THEN [err |-> "", crid |-> <<>>]
    ELSE IF ~PageHas(Head(crids), StrChno)
    THEN [err |-> "AttributeError", crid |-> <<>>]
    ELSE LET rest == UsmCridsOf(Tail(crids))
         IN  IF ValIs(PageGet(Head(crids), StrChno), -1)
             THEN [err |-> rest.err, crid |-> <<Head(crids)>> \o rest.crid]
             ELSE rest

\* the stmid of a video and of an audio directory page: "@SFV" and "@SFA"
StmidSFV == 1079199318
StmidSFA == 1079199297

\* lines 161-186: for channel_number, video_channel in video_channels.items(),
\* from the k-th channel on; acc is [err, videos, version], version a
\* sequence that is empty for None
RECURSIVE OpenVideos(_, _, _, _, _)
OpenVideos(acc, usmfile, crids, video_ch, k) ==
    IF k > Len(video_ch) \/ acc.err /= "" THEN acc
    ELSE LET channel == video_ch[k]
             found == CridsOf(crids, channel.channel_number, StmidSFV)
             keyframes == keyframes_from_seek_pages(channel.metadata)
         IN  IF found.err /= "" THEN [acc EXCEPT !.err = found.err]
             ELSE IF Len(found.crid) = 0
             THEN [acc EXCEPT !.err = "No crid page found for videos"]
             ELSE IF channel.channel_number = 0 /\ ~PageHas(found.crid[1], StrFmtver)
             THEN [acc EXCEPT !.err = "AttributeError"]
             ELSE IF keyframes.err /= "" THEN [acc EXCEPT !.err = keyframes.err]
             ELSE OpenVideos(
                      [acc EXCEPT
                         !.version = IF channel.channel_number = 0
                                     THEN <<PageGet(found.crid[1], StrFmtver).val.v[1]>>
                                     ELSE @,
                         !.videos = Append(@,
                             GenericVideo(video_sink(usmfile, channel.stream,
                                                     keyframes.frames),
                                          found.crid[1], channel.header,
                                          channel.channel_number, 0, NoPages))],
                      usmfile, crids, video_ch, k + 1)

\* lines 188-206: for channel_number, audio_channel in audio_channels.items()
RECURSIVE OpenAudios(_, _, _, _, _)
OpenAudios(acc, usmfile, crids, audio_ch, k) ==
    IF k > Len(audio_ch) \/ acc.err /= "" THEN acc
    ELSE LET channel == audio_ch[k]
             found == CridsOf(crids, channel.channel_number, StmidSFA)
         IN  IF found.err /= "" THEN [acc EXCEPT !.err = found.err]
             ELSE IF Len(found.crid) = 0
             THEN [acc EXCEPT !.err = "No crid page found for audios"]
             ELSE OpenAudios(
                      [acc EXCEPT !.audios = Append(@,
                          GenericAudio(audio_sink(usmfile, channel.stream),
                                       found.crid[1], channel.header,
                                       channel.channel_number, 0, NoPages))],
                      usmfile, crids, audio_ch, k + 1)

\* lines 208-216: the Usm made of the channels opened
OpenedUsm(channels, v, a, usm_crid) ==
    IF v.err /= "" THEN [err |-> v.err, usm |-> <<>>, channels |-> channels]
    ELSE IF a.err /= "" THEN [err |-> a.err, usm |-> <<>>, channels |-> channels]
    ELSE IF usm_crid.err /= ""
    THEN [err |-> usm_crid.err, usm |-> <<>>, channels |-> channels]
    ELSE IF Len(usm_crid.crid) = 0
    THEN [err |-> "No usm crid page found.", usm |-> <<>>, channels |-> channels]
    ELSE IF Len(v.version) = 0
    THEN [err |-> "Format version not found.", usm |-> <<>>, channels |-> channels]
    ELSE IF Len(v.videos) = 0
    THEN [err |-> "No videos given.", usm |-> <<>>, channels |-> channels]
    ELSE [err |-> "",
          usm |-> UsmNew(v.videos, a.audios, SomePages(<<usm_crid.crid[1]>>),
                         v.version[1]).usm,
          channels |-> channels]

\* lines 152-216: the channels _process_chunks returned made into media
OpenChannels(usmfile, channels) ==
    IF channels.err /= ""
    THEN [err |-> channels.err, usm |-> <<>>, channels |-> channels]
    ELSE OpenedUsm(channels,
                   OpenVideos([err |-> "", videos |-> <<>>, version |-> <<>>],
                              usmfile, channels.crids, channels.video_ch, 1),
                   OpenAudios([err |-> "", audios |-> <<>>],
                              usmfile, channels.crids, channels.audio_ch, 1),
                   UsmCridsOf(channels.crids))

\* Usm.open on a file with these bytes: [err, usm, channels]
UsmOpen(usmfile) ==
    IF Len(usmfile) <= 32
    THEN [err |-> "File too small.", usm |-> <<>>, channels |-> <<>>]
    ELSE IF ~is_usm(Slice(usmfile, 0, 4))
    THEN [err |-> "Invalid file signature", usm |-> <<>>, channels |-> <<>>]
    ELSE OpenChannels(usmfile, process_chunks(usmfile))

----------------------------------------------------------------------------
(* The page codec as a state machine: a page list is chosen, packed by     *)
(* pack_pages and the packed table is read back by get_pages.              *)

\* the largest number of pages of a table
MaxPages == 2

\* "T", "a", "b"
StrT == <<84>>
StrA == <<97>>
StrB == <<98>>

\* values of each element type, all in the type's range
SampleVals(type) ==
    CASE type = I8 -> {PyInt(-1), PyInt(127)}
      [] type = U8 -> {PyInt(0), PyInt(255)}
      [] type = I16 -> {PyInt(-32768), PyInt(258)}
      [] type = U16 -> {PyInt(1), PyInt(65535)}
      [] type = I32 -> {PyInt(-2), PyInt(2147483647)}
      [] type = U32 -> {PyInt(0), PyInt(16909060)}
      [] type = I64 -> {PyInt(-1), PyInt(16909060)}
      [] type = U64 -> {PyInt(0), PyInt(2147483647)}
      [] type = F32 -> {PyFloat(0), PyFloat(1065353216)}
      [] type = F64 -> {PyFloat(0), PyFloat(1072693248)}
      [] type = STRING_T -> {PyStr(<<>>), PyStr(<<120, 233>>)}
      [] type = BYTES -> {PyBytes(<<>>), PyBytes(<<1, 0, 255>>)}

\* the column layouts: one column of any type, or one of any type followed
\* by an I32 or a String column
Schemas ==
    {<<[key |-> StrA, type |-> t]>> : t \in ElementTypeTags}
    \cup {<<[key |-> StrA, type |-> t], [key |-> StrB, type |-> u]>> :
             t \in ElementTypeTags, u \in {I32, STRING_T}}

\* the pages of a layout
PagesOf(schema) ==
    {[name |-> StrT,
      dict |-> [j \in 1..Len(schema) |->
                   [key |-> schema[j].key, el |-> Element(vs[j], schema[j].type)]]] :
        vs \in {f \in [1..Len(schema) -> UNION {SampleVals(t) : t \in ElementTypeTags}] :
                   \A j \in 1..Len(schema) : f[j] \in SampleVals(schema[j].type)}}

PageLists ==
    UNION {UNION {[1..n -> PagesOf(sc)] : n \in 1..MaxPages} : sc \in Schemas}

\* the orders in which a set of keys can be iterated
KeyOrders(keys) ==
    {o \in [1..Cardinality(keys) -> keys] :
        \A i, j \in 1..Cardinality(keys) : o[i] = o[j] => i = j}

\* "U"
StrU == <<85>>

\* a page of the name with the I32 columns of keys, holding vals
PgPage(name, keys, vals) ==
    [name |-> name,
     dict |-> [j \in 1..Len(keys) |->
                  [key |-> keys[j], el |-> Element(PyInt(vals[j]), I32)]]]

\* page lists a caller can also pass: no page; two pages of different names;
\* of different keys; of different numbers of keys; of the same keys
\* inserted in a different order
PgOddLists ==
    {<<>>,
     <<PgPage(StrT, <<StrA>>, <<1>>), PgPage(StrU, <<StrA>>, <<1>>)>>,
     <<PgPage(StrT, <<StrA>>, <<1>>), PgPage(StrT, <<StrB>>, <<1>>)>>,
     <<PgPage(StrT, <<StrA>>, <<1>>), PgPage(StrT, <<StrA, StrB>>, <<1, 2>>)>>,
     <<PgPage(StrT, <<StrA, StrB>>, <<1, 2>>),
       PgPage(StrT, <<StrB, StrA>>, <<3, 4>>)>>,
     <<PgPage(StrT, <<StrA, StrB>>, <<1, 2>>),
       PgPage(StrT, <<StrB, StrA>>, <<2, 1>>)>>}

PgInit ==
    /\ pg_in \in PageLists \cup PgOddLists
    /\ pg_order = <<>>
    /\ pg_enc = [err |-> "", bytes |-> <<>>]
    /\ pg_dec = [err |-> "", pages |-> <<>>]
    /\ pg_pc = "start"
    /\ CiIdle
    /\ ChIdle
    /\ MxIdle
    /\ SkIdle

\* pack_pages(pg_in, "UTF-8"); the set of keys is iterated in some order
PackPages ==
    /\ pg_pc = "start"
    /\ \E o \in KeyOrders(UNION {PageKeys(pg_in[i]) : i \in 1..Len(pg_in)}) :
          /\ pg_order' = o
          /\ pg_enc' = pack_pages(pg_in, o, 0)
    /\ pg_pc' = "packed"
    /\ UNCHANGED <<pg_in, pg_dec>>

\* get_pages(pg_enc, "UTF-8") on the bytes pack_pages returned
GetPages ==
    /\ pg_pc = "packed"
    /\ pg_enc.err = ""
    /\ pg_dec' = get_pages(pg_enc.bytes)
    /\ pg_pc' = "decoded"
    /\ UNCHANGED <<pg_in, pg_order, pg_enc>>

PgNext == (PackPages \/ GetPages) /\ UNCHANGED <<ci_vars, ch_vars, mx_vars, sk_vars>>

SpecPage == PgInit /\ [][PgNext]_vars

----------------------------------------------------------------------------
(* Claims about the page codec *)

\* a valid page list: nonempty, one page name, the same columns with the
\* same element types in the same order
PgValid(pages) ==
    /\ Len(pages) > 0
    /\ \A i \in 1..Len(pages) :
          /\ pages[i].name = pages[1].name
          /\ Len(pages[i].dict) = Len(pages[1].dict)
          /\ \A j \in 1..Len(pages[i].dict) :
                /\ pages[i].dict[j].key = pages[1].dict[j].key
                /\ pages[i].dict[j].el.type = pages[1].dict[j].el.type

\* the keys of a page in insertion order
PgKeySeq(page) == [j \in 1..Len(page.dict) |-> page.dict[j].key]

\* a page list that is empty, or holds two pages of different names, of
\* different key sets, or of one key set in different insertion orders
PgMalformed(pages) ==
    \/ Len(pages) = 0
    \/ \E i, j \in 1..Len(pages) :
          \/ pages[i].name /= pages[j].name
          \/ PageKeys(pages[i]) /= PageKeys(pages[j])
          \/ PgKeySeq(pages[i]) /= PgKeySeq(pages[j])

\* the number of bytes a value of an element type takes in the schema or in
\* the unique-values array
PgWidth(type) ==
    CASE type \in {I8, U8} -> 1
      [] type \in {I16, U16} -> 2
      [] type \in {I32, U32, F32, STRING_T} -> 4
      [] OTHER -> 8

\* the column descriptors read from the schema region of a table, n of them
\* from position pos (0-based) on: [occ, type] each
RECURSIVE PgDescriptors(_, _, _)
PgDescriptors(table, pos, n) ==
    IF n = 0 THEN <<>>
    ELSE <<[occ |-> At(table, pos) \div 32, type |-> At(table, pos) % 32]>>
         \o PgDescriptors(table,
                          pos + 5 + (IF At(table, pos) \div 32 = RECURRING
                                     THEN PgWidth(At(table, pos) % 32) ELSE 0),
                          n - 1)

\* the sum of the widths of the non-recurring columns among descriptors
RECURSIVE PgUniqueWidth(_)
PgUniqueWidth(ds) ==
    IF Len(ds) = 0 THEN 0
    ELSE (IF Head(ds).occ = NON_RECURRING THEN PgWidth(Head(ds).type) ELSE 0)
         + PgUniqueWidth(Tail(ds))

\* every page holds the value of the first page in column j
PgSameValue(pages, j) ==
    \A i \in 1..Len(pages) : pages[i].dict[j].el = pages[1].dict[j].el

\* the claim of C15 about a table packed from pages, ds being its descriptors
PgOccurrences(table, pages, ds) ==
    /\ \A j \in 1..Len(ds) :
          /\ ds[j].occ \in {RECURRING, NON_RECURRING}
          /\ ds[j].occ = RECURRING <=> (Len(pages) > 1 /\ PgSameValue(pages, j))
    /\ FromBytesBE(Slice(table, 12, 16)) - FromBytesBE(Slice(table, 8, 12))
           = Len(pages) * PgUniqueWidth(ds)

\* C15: in the output of pack_pages a column's descriptor carries occurrence
\* 1 (recurring) if and only if the table has more than one page and every
\* page holds the same value for the column; otherwise it carries occurrence
\* 2 and its value is written once per page in the unique-values array.  A
\* table with one page encodes every column as non-recurring.
C15_RecurringColumns ==
    (pg_pc /= "start" /\ PgValid(pg_in) /\ pg_enc.err = "") =>
        PgOccurrences(pg_enc.bytes, pg_in,
                      PgDescriptors(pg_enc.bytes, 32, Len(pg_in[1].dict)))

\* a table of two pages was packed in which the first column recurs and the
\* second does not
C15_Witness ==
    /\ pg_pc /= "start"
    /\ pg_enc.err = ""
    /\ PgValid(pg_in)
    /\ Len(pg_in) = 2
    /\ Len(pg_in[1].dict) = 2
    /\ PgSameValue(pg_in, 1)
    /\ ~PgSameValue(pg_in, 2)

\* C14: pack_pages rejects with an error, producing no bytes, every page
\* list that is empty, that holds two pages with different names, with
\* different key sets, or with the same key set in a different insertion
\* order.
C14_PackPagesRejects ==
    (pg_pc /= "start" /\ PgMalformed(pg_in)) =>
        (pg_enc.err /= "" /\ pg_enc.bytes = <<>>)

\* C1: for every valid page list P, pack_pages(P) succeeds and
\* get_pages(pack_pages(P)) is a list of the same length whose pages have
\* the same name, the same keys in the same order and, for every key, an
\* Element of the same type and value, for every element type and value.
C1_PageRoundTrip ==
    /\ (pg_pc = "packed" /\ PgValid(pg_in)) => pg_enc.err = ""
    /\ (pg_pc = "decoded" /\ PgValid(pg_in)) =>
          /\ pg_dec.err = ""
          /\ pg_dec.pages = pg_in

----------------------------------------------------------------------------
(* The cipher as a state machine: keys are derived from a seed by          *)
(* generate_keys or given by the caller, and the packet transforms are     *)
(* applied to a packet one after the other.                                *)

\* the number of transforms applied to one packet
MaxOps == 2

\* bytes((a * n + b) % 256 for n in range(len))
Pattern(len, a, b) == [n \in 1..len |-> (a * (n - 1) + b) % 256]

\* packet lengths around 0x140 (audio) and 0x240 (video), and longer ones
\* whose tail spans more than one 0x20-byte block
CiLens == {0, 320, 321, 575, 576, 577, 608, 641}

CiPackets == {Pattern(l, 0, 0) : l \in CiLens} \cup {Pattern(l, 7, 3) : l \in CiLens}

\* key_num values: 0, 1, 0xDEADBEEF and 2^64 - 1
CiSeeds == {<<0, 0, 0, 0>>, <<1, 0, 0, 0>>, <<48879, 57005, 0, 0>>,
            <<65535, 65535, 65535, 65535>>}

\* keys given by the caller, of the expected and of other lengths
CiGivenKeys ==
    {[video_key |-> Pattern(64, 13, 5), audio_key |-> Pattern(32, 11, 9)],
     [video_key |-> Pattern(63, 13, 5), audio_key |-> Pattern(31, 11, 9)],
     [video_key |-> Pattern(65, 13, 5), audio_key |-> Pattern(33, 11, 9)]}

CiInit ==
    /\ ci_seed = <<>>
    /\ ci_keys = [video_key |-> <<>>, audio_key |-> <<>>]
    /\ ci_packet \in CiPackets
    /\ ci_data = ci_packet
    /\ ci_hist = <<>>
    /\ ci_err = ""
    /\ ci_pc = "start"
    /\ PgIdle
    /\ ChIdle
    /\ MxIdle
    /\ SkIdle

\* video_key, audio_key = generate_keys(key_num)
GenerateKeys ==
    /\ ci_pc = "start"
    /\ \E key_num \in CiSeeds :
          /\ ci_seed' = key_num
          /\ ci_keys' = generate_keys(key_num)
    /\ ci_pc' = "keyed"
    /\ UNCHANGED <<ci_packet, ci_data, ci_hist, ci_err>>

\* the caller brings its own keys
GivenKeys ==
    /\ ci_pc = "start"
    /\ \E k \in CiGivenKeys : ci_keys' = k
    /\ ci_pc' = "keyed"
    /\ UNCHANGED <<ci_seed, ci_packet, ci_data, ci_hist, ci_err>>

\* a transform returned r (or raised r.err) on ci_data
CiApply(op, r) ==
    /\ ci_hist' = Append(ci_hist, [op |-> op, input |-> ci_data])
    /\ ci_err' = r.err
    /\ ci_data' = IF r.err = "" THEN r.data ELSE ci_data
    /\ UNCHANGED <<ci_seed, ci_keys, ci_packet, ci_pc>>

CiReady ==
    /\ ci_pc = "keyed"
    /\ ci_err = ""
    /\ Len(ci_hist) < MaxOps

EncryptVideo ==
    /\ CiReady
    /\ CiApply("encrypt_video_packet",
               encrypt_video_packet(ci_data, ci_keys.video_key))

DecryptVideo ==
    /\ CiReady
    /\ CiApply("decrypt_video_packet",
               decrypt_video_packet(ci_data, ci_keys.video_key))

\* encrypt_audio_packet and decrypt_audio_packet are _crypt_audio_packet
CryptAudio ==
    /\ CiReady
    /\ CiApply("_crypt_audio_packet",
               crypt_audio_packet(ci_data, ci_keys.audio_key))

CiNext ==
    (GenerateKeys \/ GivenKeys \/ EncryptVideo \/ DecryptVideo \/ CryptAudio)
        /\ UNCHANGED <<pg_vars, ch_vars, mx_vars, sk_vars>>

SpecCipher == CiInit /\ [][CiNext]_vars

----------------------------------------------------------------------------
(* Claims about the cipher *)

\* the packet the k-th call returned
CiOutput(k) == IF k = Len(ci_hist) THEN ci_data ELSE ci_hist[k + 1].input

\* C3: for every 0x40-byte video key k and every packet p of any length,
\* decrypt_video_packet(encrypt_video_packet(p, k), k) = p.
C3_VideoRoundTrip ==
    \A k \in 1..Len(ci_hist) :
        (/\ Len(ci_keys.video_key) = 64
         /\ k + 1 <= Len(ci_hist)
         /\ ci_hist[k].op = "encrypt_video_packet"
         /\ ci_hist[k + 1].op = "decrypt_video_packet")
        => (ci_err = "" /\ CiOutput(k + 1) = ci_hist[k].input)

\* a packet long enough to be transformed was encrypted to something else
\* and decrypted again
C3_Witness ==
    /\ Len(ci_keys.video_key) = 64
    /\ Len(ci_hist) = 2
    /\ ci_hist[1].op = "encrypt_video_packet"
    /\ ci_hist[2].op = "decrypt_video_packet"
    /\ Len(ci_packet) > 608
    /\ ci_hist[2].input # ci_packet
    /\ ci_data = ci_packet

\* C9 (as stated): generate_keys(0) returns a video key whose first 8 bytes
\* are 00 00 00 CC 07 13 61 FF and an audio key whose byte 0 is 0xFF and
\* whose byte 1 is 'U' (0x55).
C9_SeedZeroKeys ==
    (ci_pc = "keyed" /\ ci_seed = <<0, 0, 0, 0>>) =>
        /\ SubSeq(ci_keys.video_key, 1, 8) = <<0, 0, 0, 204, 7, 19, 97, 255>>
        /\ At(ci_keys.audio_key, 0) = 255
        /\ At(ci_keys.audio_key, 1) = 85

\* C9 (amended): generate_keys(0) returns a video key whose first 8 bytes
\* are 00 00 00 CC F9 13 61 FF and an audio key whose byte 0 is 0xFF and
\* whose byte 1 is 'U' (0x55).
C9_SeedZeroKeysAmended ==
    (ci_pc = "keyed" /\ ci_seed = <<0, 0, 0, 0>>) =>
        /\ SubSeq(ci_keys.video_key, 1, 8) = <<0, 0, 0, 204, 249, 19, 97, 255>>
        /\ At(ci_keys.audio_key, 0) = 255
        /\ At(ci_keys.audio_key, 1) = 85

\* generate_keys(0) has returned
C9_Witness ==
    /\ ci_pc = "keyed"
    /\ ci_seed = <<0, 0, 0, 0>>
    /\ Len(ci_keys.video_key) = 64
    /\ Len(ci_keys.audio_key) = 32

\* C10: for every 0x20-byte audio key k and every packet p,
\* crypt(crypt(p, k), k) = p, crypt being the one function used as
\* encrypt_audio_packet and as decrypt_audio_packet.
C10_AudioInvolution ==
    \A k \in 1..Len(ci_hist) :
        (/\ Len(ci_keys.audio_key) = 32
         /\ k + 1 <= Len(ci_hist)
         /\ ci_hist[k].op = "_crypt_audio_packet"
         /\ ci_hist[k + 1].op = "_crypt_audio_packet")
        => (ci_err = "" /\ CiOutput(k + 1) = ci_hist[k].input)

\* a packet longer than 0x140 was transformed to something else and back
C10_Witness ==
    /\ Len(ci_keys.audio_key) = 32
    /\ Len(ci_hist) = 2
    /\ ci_hist[1].op = "_crypt_audio_packet"
    /\ ci_hist[2].op = "_crypt_audio_packet"
    /\ Len(ci_packet) > 320
    /\ ci_hist[2].input # ci_packet
    /\ ci_data = ci_packet

\* the k-th call returned a packet; the last call may have raised
CiReturned(k) == k < Len(ci_hist) \/ ci_err = ""

CiVideoOps == {"encrypt_video_packet", "decrypt_video_packet"}

\* the first n bytes of a packet, or all of it when it is shorter
CiPrefix(packet, n) == SubSeq(packet, 1, Min(n, Len(packet)))

\* C11: encrypt_video_packet and decrypt_video_packet return a packet shorter
\* than 0x240 unchanged and transform one of exactly 0x240 bytes; the audio
\* transform returns a packet of at most 0x140 bytes unchanged; the output
\* always has the length of the input, and bytes [0, 0x40) of a video packet
\* and [0, 0x140) of an audio packet are never changed.
C11_ShortPacketIdentity ==
    \A k \in 1..Len(ci_hist) :
        CiReturned(k) =>
            /\ Len(CiOutput(k)) = Len(ci_hist[k].input)
            /\ ci_hist[k].op \in CiVideoOps =>
                   /\ Len(ci_hist[k].input) < 576 =>
                          CiOutput(k) = ci_hist[k].input
                   /\ Len(ci_hist[k].input) = 576 =>
                          CiOutput(k) /= ci_hist[k].input
                   /\ CiPrefix(CiOutput(k), 64) = CiPrefix(ci_hist[k].input, 64)
            /\ ci_hist[k].op = "_crypt_audio_packet" =>
                   /\ Len(ci_hist[k].input) <= 320 =>
                          CiOutput(k) = ci_hist[k].input
                   /\ CiPrefix(CiOutput(k), 320) = CiPrefix(ci_hist[k].input, 320)

\* 0x140 zero bytes went through the audio transform with the keys of seed 1,
\* and then through a video transform
C11_Witness ==
    /\ ci_seed = <<1, 0, 0, 0>>
    /\ ci_packet = Pattern(320, 0, 0)
    /\ Len(ci_hist) = 2
    /\ ci_hist[1].op = "_crypt_audio_packet"
    /\ ci_hist[2].op \in CiVideoOps
    /\ ci_err = ""
    /\ ci_data = ci_packet

\* C12: for every seed that fits in 8 bytes generate_keys returns a video key
\* of 0x40 bytes and an audio key of 0x20 bytes; with K the first 0x20 bytes
\* of the video key, video_key[0x20 + i] is K[i] XOR 0xFF, audio_key[i] is
\* K[i] XOR 0xFF for even i and "URUC"[(i >> 1) mod 4] for odd i.
C12_KeyShape ==
    (ci_pc = "keyed" /\ ci_seed /= <<>>) =>
        /\ Len(ci_keys.video_key) = 64
        /\ Len(ci_keys.audio_key) = 32
        /\ \A i \in 0..31 :
               /\ At(ci_keys.video_key, 32 + i) = 255 - At(ci_keys.video_key, i)
               /\ i % 2 = 0 =>
                      At(ci_keys.audio_key, i) = 255 - At(ci_keys.video_key, i)
               /\ i % 2 /= 0 =>
                      At(ci_keys.audio_key, i) = At(StrURUC, (i \div 2) % 4)

\* generate_keys(0xDEADBEEF) has returned
C12_Witness ==
    /\ ci_pc = "keyed"
    /\ ci_seed = <<48879, 57005, 0, 0>>
    /\ ci_keys.video_key /= <<>>

\* C13: the video transforms fail with an invalid-key error whenever the key
\* is not 0x40 bytes long, and the audio transform whenever the key is not
\* 0x20 bytes long, for every packet length; no packet is returned then.
C13_WrongKeyLengthFails ==
    \A k \in 1..Len(ci_hist) :
        /\ (ci_hist[k].op \in CiVideoOps /\ Len(ci_keys.video_key) /= 64) =>
               (~CiReturned(k) /\ ci_err = "ValueError")
        /\ (ci_hist[k].op = "_crypt_audio_packet"
               /\ Len(ci_keys.audio_key) /= 32) =>
               (~CiReturned(k) /\ ci_err = "ValueError")

----------------------------------------------------------------------------
(* The chunk codec as a state machine: a UsmChunk is built, packed,        *)
(* measured and the packed bytes are read back by UsmChunk.from_bytes.     *)

\* page lists handed to a chunk: one page, two pages, and one that
\* pack_pages rejects
ChPageA == update(update(UsmPage(StrT), StrA, I32, PyInt(1)).page,
                  StrB, STRING_T, PyStr(<<120>>)).page

ChPageB == update(update(UsmPage(StrT), StrA, I32, PyInt(2)).page,
                  StrB, STRING_T, PyStr(<<120>>)).page

ChPageF64 == update(UsmPage(StrT), StrA, F64, PyFloat(0)).page

ChPayloads ==
    {BytesPayload(<<>>),
     BytesPayload(<<1, 2, 3>>),
     BytesPayload(Pattern(48, 7, 3)),
     BytesPayload(StrContentsEnd),
     BytesPayload(StrUTF),
     BytesPayload(pack_pages(<<ChPageA>>, <<StrA, StrB>>, 0).bytes),
     PagesPayload(<<ChPageA>>),
     PagesPayload(<<ChPageA, ChPageB>>),
     PagesPayload(<<ChPageF64>>)}

ChPaddings ==
    {PadInt(0), PadInt(16), PadInt(24), PadInt(65536), PadMetadata,
     PadToNextSector(0)}

\* channel_number, frame_time, frame_rate
ChFields ==
    {[channel_number |-> 0, frame_time |-> 0, frame_rate |-> 30],
     [channel_number |-> 1, frame_time |-> 99, frame_rate |-> 2997],
     [channel_number |-> 255, frame_time |-> 65536, frame_rate |-> 6000],
     [channel_number |-> 256, frame_time |-> 0, frame_rate |-> 30]}

ChChunks ==
    {UsmChunk(t, pt, payload, f.frame_rate, f.frame_time, padding, f.channel_number) :
        t \in {INFO, VIDEO, AUDIO}, pt \in {STREAM, HEADER, SECTION_END, METADATA},
        payload \in ChPayloads, padding \in ChPaddings, f \in ChFields}

ChInit ==
    /\ ch_in \in ChChunks
    /\ ch_packed = [err |-> "", bytes |-> <<>>]
    /\ ch_len = [err |-> "", n |-> 0]
    /\ ch_pad = [err |-> "", n |-> 0]
    /\ ch_out = <<>>
    /\ ch_pc = "start"
    /\ PgIdle
    /\ CiIdle
    /\ MxIdle
    /\ SkIdle

\* the key set of the chunk's pages, in any iteration order
ChKeyOrders ==
    KeyOrders(UNION {PageKeys(ch_in.payload.pages[i]) :
                        i \in 1..Len(ch_in.payload.pages)})

\* ch_in.pack()
ChPack ==
    /\ ch_pc = "start"
    /\ \E o \in ChKeyOrders : ch_packed' = UsmChunkPack(ch_in, o)
    /\ ch_pc' = "packed"
    /\ UNCHANGED <<ch_in, ch_len, ch_pad, ch_out>>

\* len(ch_in) and ch_in.padding, each with its own call of pack_pages
ChMeasure ==
    /\ ch_pc = "packed"
    /\ \E o \in ChKeyOrders : ch_len' = UsmChunkLen(ch_in, o)
    /\ \E o \in ChKeyOrders : ch_pad' = UsmChunkPadding(ch_in, o)
    /\ ch_pc' = "measured"
    /\ UNCHANGED <<ch_in, ch_packed, ch_out>>

\* UsmChunk.from_bytes(ch_in.pack())
ChFromBytes ==
    /\ ch_pc = "measured"
    /\ ch_packed.err = ""
    /\ ch_out' = <<UsmChunkFromBytes(ch_packed.bytes)>>
    /\ ch_pc' = "decoded"
    /\ UNCHANGED <<ch_in, ch_packed, ch_len, ch_pad>>

ChNext == (ChPack \/ ChMeasure \/ ChFromBytes) /\ UNCHANGED <<pg_vars, ci_vars, mx_vars, sk_vars>>

SpecChunk == ChInit /\ [][ChNext]_vars

----------------------------------------------------------------------------
(* Claims about the chunk codec *)

\* C2: for every chunk C with payload kind STREAM or SECTION_END and any
\* raw bytes payload, UsmChunk.from_bytes(C.pack()) yields a chunk with the
\* same chunk kind, payload kind, channel number, frame_time, frame_rate,
\* payload bytes and padding count as C.
C2_ChunkRoundTrip ==
    (/\ ch_pc = "decoded"
     /\ ch_in.payload_type \in {STREAM, SECTION_END}
     /\ ~ch_in.payload.list)
    => /\ ch_out[1].err = ""
       /\ ch_out[1].chunk.chunk_type = ch_in.chunk_type
       /\ ch_out[1].chunk.payload_type = ch_in.payload_type
       /\ ch_out[1].chunk.channel_number = ch_in.channel_number
       /\ ch_out[1].chunk.frame_time = ch_in.frame_time
       /\ ch_out[1].chunk.frame_rate = ch_in.frame_rate
       /\ ch_out[1].chunk.payload = BytesPayload(ch_in.payload.bytes)
       /\ ch_out[1].chunk.padding = PadInt(ch_pad.n)

\* the length of the payload as it is encoded in the chunk
C8_PayloadLen ==
    IF ch_in.payload.list
    THEN Len(pack_pages(ch_in.payload.pages,
                        CHOOSE o \in ChKeyOrders : TRUE, 0).bytes)
    ELSE Len(ch_in.payload.bytes)

\* C8: for every UsmChunk (integer padding or padding function, bytes
\* payload or page-list payload), len(chunk.pack()) = 0x20 + len(encoded
\* payload) + chunk.padding = len(chunk), the big-endian u32 at bytes 4..8
\* of the packed chunk is 0x18 + len(encoded payload) + padding, and the
\* u16 at bytes 0xA..0xC is the padding.
C8_PackedLength ==
    (ch_pc \in {"measured", "decoded"} /\ ch_packed.err = "")
    => /\ ch_len.err = ""
       /\ ch_pad.err = ""
       /\ Len(ch_packed.bytes) = 32 + C8_PayloadLen + ch_pad.n
       /\ Len(ch_packed.bytes) = ch_len.n
       /\ FromBytesBE(Slice(ch_packed.bytes, 4, 8)) = 24 + C8_PayloadLen + ch_pad.n
       /\ FromBytesBE(Slice(ch_packed.bytes, 10, 12)) = ch_pad.n

\* a chunk with a page list and a padding function was packed and measured
C8_Witness ==
    /\ ch_pc = "measured"
    /\ ch_packed.err = ""
    /\ ch_in.payload.list
    /\ Len(ch_in.payload.pages) = 2
    /\ ch_in.padding.fn = "metadata_pad"
    /\ ch_pad.n > 0
    /\ Len(ch_packed.bytes) = 240

----------------------------------------------------------------------------
(* usm/media/tools.py: the directory pages of a channel *)

\* create_video_crid_page; format_version is a sequence, empty for None
create_video_crid_page(filename, filesize, max_size, channel_number, bitrate, format_version) ==
    LET p0 == UsmPage(StrCRIUSF_DIR_STREAM)
        p1 == IF Len(format_version) > 0
              THEN Updated(p0, StrFmtver, I32, PyInt(format_version[1]))
              ELSE p0
        p2 == Updated(p1, StrFilename, STRING_T, PyStr(filename))
        p3 == Updated(p2, StrFilesize, I32, PyInt(filesize))
        p4 == Updated(p3, StrDatasize, I32, PyInt(0))
        p5 == Updated(p4, StrStmid, I32, PyInt(1079199318))
        p6 == Updated(p5, StrChno, I16, PyInt(channel_number))
        p7 == Updated(p6, StrMinchk, I16, PyInt(3))
        p8 == Updated(p7, StrMinbuf, I32, PyInt(max_size))
    IN  Updated(p8, StrAvbps, I32, PyInt(bitrate))

\* create_audio_crid_page
create_audio_crid_page(filename, filesize, format_version, channel_number, minbuf, avbps) ==
    LET p0 == UsmPage(StrCRIUSF_DIR_STREAM)
        p1 == Updated(p0, StrFmtver, I32, PyInt(format_version))
        p2 == Updated(p1, StrFilename, STRING_T, PyStr(filename))
        p3 == Updated(p2, StrFilesize, I32, PyInt(filesize))
        p4 == Updated(p3, StrDatasize, I32, PyInt(0))
        p5 == Updated(p4, StrStmid, I32, PyInt(1079199297))
        p6 == Updated(p5, StrChno, I16, PyInt(channel_number))
        p7 == Updated(p6, StrMinchk, I16, PyInt(1))
        p8 == Updated(p7, StrMinbuf, I32, PyInt(minbuf))
    IN  Updated(p8, StrAvbps, I32, PyInt(avbps))

----------------------------------------------------------------------------
(* The muxer and the demuxer as a state machine: a Usm built from channels
   is streamed with Usm.stream in mode NONE, block by block; the bytes it
   yielded are opened with Usm.open, and the Usm opened is streamed again. *)

\* the longest packet sequence of a video channel
MaxFrames == 2

\* the format version Vp9 and the other containers default to
FormatVersion == 16777984

\* packets: two keyframes and one frame that is none, of lengths that are
\* and are not multiples of 0x20
MxK5 == [data |-> Pattern(5, 1, 1), key |-> TRUE]
MxN32 == [data |-> Pattern(32, 3, 0), key |-> FALSE]
MxK40 == [data |-> Pattern(40, 5, 2), key |-> TRUE]
MxA7 == [data |-> Pattern(7, 7, 3), key |-> FALSE]
MxA64 == [data |-> Pattern(64, 11, 5), key |-> FALSE]

MxVideoStreams == UNION {[1..n -> {MxK5, MxN32, MxK40}] : n \in 0..MaxFrames}
MxSecondStreams == {<<MxK5>>, <<MxN32, MxK40>>}
MxAudioStreams == {<<>>, <<MxA7>>, <<MxA7, MxA64>>}

\* a format version other than the default one
OtherVersion == FormatVersion - 512
MxVersions == {<<>>, <<OtherVersion>>}

\* file names: "v.ivf", "a.hca", and a path of MxLongLen characters before
\* "/v.ivf", with which the directory table outgrows one sector
StrVIvf == <<118, 46, 105, 118, 102>>
StrAHca == <<97, 46, 104, 99, 97>>
MxLongLen == 2000
MxLongPath == [i \in 1..MxLongLen |-> 100] \o <<47>> \o StrVIvf

\* header pages as a caller hands them to GenericVideo and GenericAudio
StrVIDEO_HDRINFO == <<86, 73, 68, 69, 79, 95, 72, 68, 82, 73, 78, 70, 79>>
StrAUDIO_HDRINFO == <<65, 85, 68, 73, 79, 95, 72, 68, 82, 73, 78, 70, 79>>
StrWidth == <<119, 105, 100, 116, 104>>
StrSamplingRate == <<115, 97, 109, 112, 108, 105, 110, 103, 95, 114, 97, 116, 101>>
StrNumChannels == <<110, 117, 109, 95, 99, 104, 97, 110, 110, 101, 108, 115>>

MxVideoHeaderNoRate == Updated(UsmPage(StrVIDEO_HDRINFO), StrWidth, I32, PyInt(16))

MxVideoHeader ==
    Updated(Updated(MxVideoHeaderNoRate, StrFramerateN, I32, PyInt(30000)),
            StrFramerateD, I32, PyInt(1000))

MxAudioHeader ==
    Updated(Updated(UsmPage(StrAUDIO_HDRINFO), StrSamplingRate, I32, PyInt(48000)),
            StrNumChannels, I32, PyInt(2))

\* packets that begin with "@UTF": those four bytes alone, and a packed table
MxUtf == [data |-> StrUTF, key |-> TRUE]
MxUtfTable ==
    [data |-> pack_pages(<<MxVideoHeaderNoRate>>, <<StrWidth>>, 0).bytes,
     key |-> TRUE]
MxUtfStreams == {<<MxK5, MxUtf>>, <<MxUtfTable, MxN32>>}

\* a video and an audio channel as a caller builds them, the declared
\* length being the number of packets
MxVideo(channel_number, stream, filename, header, metadata) ==
    GenericVideo(stream,
                 create_video_crid_page(filename, 100, 64, channel_number, 1000,
                                        <<FormatVersion>>),
                 HeaderPage(header), Len(stream), channel_number, metadata)

\* a video whose directory page has the format version fmtver, or none
MxVideoOfVersion(channel_number, stream, fmtver) ==
    GenericVideo(stream,
                 create_video_crid_page(StrVIvf, 100, 64, channel_number, 1000,
                                        fmtver),
                 HeaderPage(MxVideoHeader), Len(stream), channel_number, NoPages)

MxAudio(channel_number, stream) ==
    GenericAudio(stream,
                 create_audio_crid_page(StrAHca, 100, FormatVersion, channel_number,
                                        64, 500),
                 HeaderPage(MxAudioHeader), Len(stream), channel_number, NoPages)

\* the arguments of Usm(...): one video on channel 0 in either order of a
\* key set; with an audio channel; with a second video, passed first; with
\* a long path; with a header that has no frame rate; with metadata pages
\* of the caller; two videos with two audios; with packets that begin with
\* "@UTF"; one video on channel 1 alone; and one whose directory page has
\* another format version, or none; and a video next to one whose declared
\* length is not its number of packets
MxInputs ==
    {[video |-> <<MxVideo(0, s, StrVIvf, MxVideoHeader, NoPages)>>,
      audio |-> <<>>, rev |-> r] : s \in MxVideoStreams, r \in BOOLEAN}
    \cup {[video |-> <<MxVideo(0, s, StrVIvf, MxVideoHeader, NoPages)>>,
           audio |-> <<MxAudio(0, a)>>, rev |-> FALSE] :
             s \in MxVideoStreams, a \in MxAudioStreams}
    \cup {[video |-> <<MxVideo(1, t, StrVIvf, MxVideoHeader, NoPages),
                       MxVideo(0, s, StrVIvf, MxVideoHeader, NoPages)>>,
           audio |-> <<>>, rev |-> FALSE] :
             s \in MxVideoStreams, t \in MxSecondStreams}
    \cup {[video |-> <<MxVideo(0, s, MxLongPath, MxVideoHeader, NoPages)>>,
           audio |-> <<>>, rev |-> FALSE] : s \in MxVideoStreams}
    \cup {[video |-> <<MxVideo(0, s, StrVIvf, MxVideoHeaderNoRate, NoPages)>>,
           audio |-> <<>>, rev |-> FALSE] : s \in MxVideoStreams}
    \cup {[video |-> <<MxVideo(0, s, StrVIvf, MxVideoHeader,
                               SomePages(<<SeekPage(0, 0)>>))>>,
           audio |-> <<>>, rev |-> FALSE] : s \in MxVideoStreams}
    \cup {[video |-> <<MxVideo(1, t, StrVIvf, MxVideoHeader, NoPages),
                       MxVideo(0, <<MxK5, MxN32>>, StrVIvf, MxVideoHeader, NoPages)>>,
           audio |-> <<MxAudio(1, a), MxAudio(0, <<MxA64>>)>>, rev |-> FALSE] :
             t \in MxSecondStreams, a \in MxAudioStreams}
    \cup {[video |-> <<MxVideo(0, s, StrVIvf, MxVideoHeader, NoPages)>>,
           audio |-> <<>>, rev |-> FALSE] : s \in MxUtfStreams}
    \cup {[video |-> <<MxVideo(1, t, StrVIvf, MxVideoHeader, NoPages)>>,
           audio |-> <<>>, rev |-> FALSE] : t \in MxSecondStreams}
    \cup {[video |-> <<MxVideoOfVersion(0, t, v)>>,
           audio |-> <<>>, rev |-> FALSE] :
             t \in MxSecondStreams, v \in MxVersions}
    \cup {[video |-> <<MxVideo(1, t, StrVIvf, MxVideoHeader, NoPages),
                       [MxVideo(0, <<MxK5, MxN32>>, StrVIvf, MxVideoHeader, NoPages)
                            EXCEPT !.length = 1]>>,
           audio |-> <<>>, rev |-> FALSE] : t \in MxSecondStreams}

\* Usm.chunks before the first pass of its stream loop
ChunksStart == [pos |-> 0, chunks |-> <<>>, err |-> ""]

MxInit ==
    /\ \E in \in MxInputs :
          /\ mx_usm = UsmNew(in.video, in.audio, NoPages, FormatVersion).usm
          /\ mx_rev = in.rev
    /\ mx_ps = PackStreamStart(mx_usm.videos, mx_usm.audios)
    /\ mx_index = 0
    /\ mx_pre = <<>>
    /\ mx_emitted = <<>>
    /\ mx_out = <<>>
    /\ mx_pos = 0
    /\ mx_err = ""
    /\ mx_opened = FALSE
    /\ mx_src = <<>>
    /\ mx_channels = <<>>
    /\ mx_pc = "pack"
    /\ mx_handle = "none"
    /\ mx_scratch = "open"
    /\ mx_chunks = ChunksStart
    /\ PgIdle
    /\ CiIdle
    /\ ChIdle
    /\ SkIdle

\* b"".join(blocks)
RECURSIVE Flatten(_)
Flatten(blocks) ==
    IF Len(blocks) = 0 THEN <<>> ELSE Head(blocks) \o Flatten(Tail(blocks))

\* the locals of _pack_stream after a round, or the exception it raised
MxPacked(ps) ==
    /\ mx_ps' = ps
    /\ mx_err' = ps.err
    /\ mx_pc' = IF ps.err /= "" THEN "failed" ELSE "pack"

\* _pack_stream: one round of "for index in range(max_frames)"
MxPackRound ==
    /\ mx_pc = "pack"
    /\ mx_index < mx_usm.max_frame
    /\ MxPacked(PackStreamRound(mx_ps, mx_usm.videos, mx_usm.audios, mx_index))
    /\ mx_index' = mx_index + 1
    /\ UNCHANGED <<mx_usm, mx_rev, mx_pre, mx_emitted, mx_out, mx_pos, mx_opened,
                   mx_src, mx_channels>>

\* the pre-stream chunks held back for the yields, or the exception raised
MxPrestreamed(usm, pre) ==
    /\ mx_usm' = [usm EXCEPT !.videos = pre.videos]
    /\ mx_pre' = pre.chunks
    /\ mx_err' = pre.err
    /\ mx_pc' = IF pre.err /= "" THEN "failed" ELSE "emit"

\* _pack_stream returns; Usm.stream sets _max_packet_size, and
\* _generate_prestream_chunks runs up to its first yield
MxGeneratePrestream ==
    /\ mx_pc = "pack"
    /\ mx_index >= mx_usm.max_frame
    /\ MxPrestreamed(
           [mx_usm EXCEPT !.max_packet_size = mx_ps.max_packet_size],
           GeneratePrestreamChunks(
               [mx_usm EXCEPT !.max_packet_size = mx_ps.max_packet_size],
               Len(mx_ps.file), mx_ps.keyframes, mx_rev))
    /\ UNCHANGED <<mx_rev, mx_ps, mx_index, mx_emitted, mx_out, mx_pos, mx_opened,
                   mx_src, mx_channels>>

\* the bytes of a pre-stream chunk yielded, or the exception pack() raised
MxYielded(chunk, packed) ==
    /\ mx_err' = packed.err
    /\ mx_pc' = IF packed.err /= "" THEN "failed" ELSE "emit"
    /\ mx_out' = IF packed.err /= "" THEN mx_out ELSE Append(mx_out, packed.bytes)
    /\ mx_emitted' = IF packed.err /= "" THEN mx_emitted
                     ELSE Append(mx_emitted, chunk)

\* Usm.stream: yield chunk.pack() for the next pre-stream chunk
MxEmitChunk ==
    /\ mx_pc = "emit"
    /\ Len(mx_pre) > 0
    /\ MxYielded(Head(mx_pre),
                 UsmChunkPack(Head(mx_pre), ChunkKeyOrder(Head(mx_pre), mx_rev)))
    /\ mx_pre' = Tail(mx_pre)
    /\ UNCHANGED <<mx_usm, mx_rev, mx_ps, mx_index, mx_pos, mx_opened, mx_src,
                   mx_channels>>

\* Usm.stream: yield stream_file.read(0x800)
MxEmitBlock ==
    /\ mx_pc = "emit"
    /\ Len(mx_pre) = 0
    /\ Len(mx_ps.file) > mx_pos
    /\ mx_out' = Append(mx_out, ReadBlock(mx_ps.file, mx_pos))
    /\ mx_pos' = Min(mx_pos + 2048, Len(mx_ps.file))
    /\ UNCHANGED <<mx_usm, mx_rev, mx_ps, mx_index, mx_pre, mx_emitted, mx_err,
                   mx_opened, mx_src, mx_channels, mx_pc>>

\* Usm.stream: the scratch file is read to its end, the generator returns
MxStop ==
    /\ mx_pc = "emit"
    /\ Len(mx_pre) = 0
    /\ Len(mx_ps.file) <= mx_pos
    /\ mx_pc' = "done"
    /\ UNCHANGED <<mx_usm, mx_rev, mx_ps, mx_index, mx_pre, mx_emitted, mx_out,
                   mx_pos, mx_err, mx_opened, mx_src, mx_channels>>

\* the Usm that Usm.open returned, about to be streamed; or the exception
MxOpened(usmfile, opened) ==
    /\ mx_src' = usmfile
    /\ mx_channels' = opened.channels
    /\ mx_err' = opened.err
    /\ mx_usm' = opened.usm
    /\ mx_ps' = IF opened.err /= "" THEN mx_ps
                ELSE PackStreamStart(opened.usm.videos, opened.usm.audios)
    /\ mx_pc' = IF opened.err /= "" THEN "failed" ELSE "pack"
    /\ mx_scratch' = IF opened.err /= "" THEN mx_scratch ELSE "open"

\* a chunk as other tools write it, of another kind than the muxer's three:
\* one of each of the seven other kinds of ChunkType, and one of no kind
StrXXXX == <<88, 88, 88, 88>>
MxExtraChunks ==
    {<<>>}
    \cup {UsmChunkPack(UsmChunk(t, STREAM, BytesPayload(<<1, 2, 3>>), 30, 0,
                                PadInt(5), 0), <<>>).bytes :
             t \in {ALPHA, SUBTITLE, CUE, SFSH, AHX, USR, PST, StrXXXX}}

\* Usm.open(filepath) on a file that holds the bytes usmfile: line 138,
\* usmfile = open(filepath, "rb"), is reached by a file of more than 0x20
\* bytes
MxOpenFile(usmfile) ==
    /\ MxOpened(usmfile, UsmOpen(usmfile))
    /\ mx_handle' = IF Len(usmfile) <= 32 THEN mx_handle ELSE "open"

\* the blocks yielded are written to a file, alone or followed by a chunk
\* of another kind, and Usm.open is called on it; the Usm it returns is
\* streamed next, which makes a scratch file of its own (line 640)
MxOpen ==
    /\ mx_pc = "done"
    /\ \E extra \in MxExtraChunks : MxOpenFile(Flatten(mx_out) \o extra)
    /\ mx_opened' = TRUE
    /\ mx_index' = 0
    /\ mx_pre' = <<>>
    /\ mx_emitted' = <<>>
    /\ mx_out' = <<>>
    /\ mx_pos' = 0
    /\ mx_chunks' = ChunksStart
    /\ UNCHANGED mx_rev

\* the caller drops the iterator of Usm.stream before it is exhausted
MxDrop ==
    /\ mx_pc = "emit"
    /\ mx_pc' = "dropped"
    /\ UNCHANGED <<mx_usm, mx_rev, mx_ps, mx_index, mx_pre, mx_emitted, mx_out,
                   mx_pos, mx_err, mx_opened, mx_src, mx_channels, mx_files,
                   mx_chunks>>

\* Neither Usm.open nor Usm.stream closes a file: a file object is closed
\* when the interpreter finalises it, at some time after the last reference
\* to it is gone. The handle of a failed Usm.open and the scratch file of a
\* generator that has returned, has raised or was dropped are unreferenced.
MxFinalize ==
    /\ mx_pc \in {"done", "failed", "dropped"}
    /\ \/ /\ mx_scratch = "open"
          /\ mx_scratch' = "closed"
          /\ UNCHANGED mx_handle
       \/ /\ mx_handle = "open"
          /\ mx_pc = "failed"
          /\ mx_usm = <<>>
          /\ mx_handle' = "closed"
          /\ UNCHANGED mx_scratch
    /\ UNCHANGED <<mx_usm, mx_rev, mx_ps, mx_index, mx_pre, mx_emitted, mx_out,
                   mx_pos, mx_err, mx_opened, mx_src, mx_channels, mx_pc,
                   mx_chunks>>

\* Usm.chunks: the chunk object yielded from the bytes read, and the seek
\* over the padding
ChunksYield(state, read, next) ==
    IF read.err /= "" THEN [state EXCEPT !.err = read.err]
    ELSE [pos |-> next, chunks |-> Append(state.chunks, read.chunk), err |-> ""]

\* Usm.chunks: one pass of the stream loop, sp being what
\* chunk_size_and_padding made of the 0x20 bytes peeked at state.pos
ChunksRead(state, file, sp) ==
    IF sp.err /= "" THEN [state EXCEPT !.err = sp.err]
    ELSE ChunksYield(state,
                     UsmChunkFromBytes(Slice(file, state.pos, state.pos + sp.size)),
                     state.pos + sp.size + sp.padding)

\* Usm.chunks after its pre-stream chunks: the next chunk of the scratch
\* stream, which holds the bytes Usm.stream yields
UsmChunksNext ==
    /\ mx_pc = "done"
    /\ mx_chunks.err = ""
    /\ Len(mx_ps.file) > mx_chunks.pos
    /\ mx_chunks' = ChunksRead(mx_chunks, mx_ps.file,
                               chunk_size_and_padding(
                                   Slice(mx_ps.file, mx_chunks.pos,
                                         mx_chunks.pos + 32)))
    /\ UNCHANGED <<mx_usm, mx_rev, mx_ps, mx_index, mx_pre, mx_emitted, mx_out,
                   mx_pos, mx_err, mx_opened, mx_src, mx_channels, mx_pc,
                   mx_files>>

MxNext ==
    /\ \/ /\ (MxPackRound \/ MxGeneratePrestream \/ MxEmitChunk \/ MxEmitBlock
               \/ MxStop)
          /\ UNCHANGED <<mx_files, mx_chunks>>
       \/ MxOpen
       \/ MxDrop
       \/ MxFinalize
       \/ UsmChunksNext
    /\ UNCHANGED <<pg_vars, ci_vars, ch_vars, sk_vars>>

SpecMux == MxInit /\ [][MxNext]_vars

(***************************************************************************)
(* Claims about the muxer                                                  *)
(***************************************************************************)

\* the number of bytes in a sequence of yielded blocks
RECURSIVE TotalLen(_)
TotalLen(blocks) ==
    IF Len(blocks) = 0 THEN 0 ELSE Len(Head(blocks)) + TotalLen(Tail(blocks))

\* the bytes of the pre-stream chunks yielded: the CRID chunk, and the
\* header and metadata chunks after it
MxPrestreamLen == TotalLen(SubSeq(mx_out, 1, Len(mx_emitted)))
MxHeaderMetadataLen == TotalLen(SubSeq(mx_out, 2, Len(mx_emitted)))

\* Usm.stream ran to its end on media given by the caller
MxMuxed == mx_pc = "done" /\ ~mx_opened

\* the filesize element of the top directory page that was yielded
MxFilesize == PageGet(mx_emitted[1].payload.pages[1], StrFilesize).val.v[1]

\* C5: the total number of bytes Usm.stream emits equals the filesize of the
\* top directory page, which is 0x800 plus the size of the header and
\* metadata chunks plus the size of the stream section.
C5_FilesizeIsLength ==
    MxMuxed =>
        /\ TotalLen(mx_out) = MxFilesize
        /\ MxFilesize = 2048 + MxHeaderMetadataLen + Len(mx_ps.file)

\* the yielded METADATA chunks of a video channel
MxSeekChunks(channel_number) ==
    {j \in 1..Len(mx_emitted) :
        /\ mx_emitted[j].chunk_type = VIDEO
        /\ mx_emitted[j].payload_type = METADATA
        /\ mx_emitted[j].channel_number = channel_number}

\* the VIDEO_SEEKINFO pages yielded for a frame of a video channel
MxSeekPages(channel_number, frame) ==
    {jp \in UNION {{<<j, p>> : p \in 1..Len(mx_emitted[j].payload.pages)} :
                      j \in MxSeekChunks(channel_number)} :
        PageGet(mx_emitted[jp[1]].payload.pages[jp[2]], StrOfsFrmid).val.v[1]
            = frame}

\* the scratch-file offsets of the VIDEO STREAM chunk of a frame
MxScratchOffsets(channel_number, frame) ==
    {mx_ps.written[w].offset : w \in
        {w \in 1..Len(mx_ps.written) :
            /\ mx_ps.written[w].chunk.chunk_type = VIDEO
            /\ mx_ps.written[w].chunk.payload_type = STREAM
            /\ mx_ps.written[w].chunk.channel_number = channel_number
            /\ mx_ps.written[w].index = frame}}

\* C6: for a video muxed without metadata of the caller, each keyframe has
\* exactly one VIDEO_SEEKINFO page; its ofs_frmid is the frame index and its
\* ofs_byte is 0x800 plus the header/metadata size plus the scratch offset of
\* the frame's VIDEO STREAM chunk, which is the offset of that chunk in the
\* emitted file.
C6_SeekInfoOffsets ==
    MxMuxed =>
        \A k \in 1..Len(mx_usm.videos) :
            mx_usm.videos[k].metadata_pages.none =>
                \A i \in 1..Len(mx_usm.videos[k].stream) :
                    mx_usm.videos[k].stream[i].key =>
                        /\ Cardinality(MxSeekPages(
                               mx_usm.videos[k].channel_number, i - 1)) = 1
                        /\ \A jp \in MxSeekPages(
                                   mx_usm.videos[k].channel_number, i - 1) :
                           \A o \in MxScratchOffsets(
                                   mx_usm.videos[k].channel_number, i - 1) :
                              LET ofs_byte == PageGet(
                                      mx_emitted[jp[1]].payload.pages[jp[2]],
                                      StrOfsByte).val.v[1]
                              IN  /\ ofs_byte = 2048 + MxHeaderMetadataLen + o
                                  /\ ofs_byte = MxPrestreamLen + o

\* C7: every chunk the muxer emits has a packed length that is a multiple of
\* 0x20: the pre-stream chunks yielded and the chunks of the stream section.
C7_ChunkLengthsAligned ==
    /\ \A j \in 1..Len(mx_emitted) : Len(mx_out[j]) % 32 = 0
    /\ \A w \in 1..Len(mx_ps.written) :
           UsmChunkLen(mx_ps.written[w].chunk, <<>>).n % 32 = 0

\* the packets Usm.open finds for the video and audio channels of a file
MxStreamsOf(usmfile) ==
    LET channels == process_chunks(usmfile)
    IN  [video |-> [k \in 1..Len(channels.video_ch) |->
                       [channel_number |-> channels.video_ch[k].channel_number,
                        packets |-> video_sink(usmfile,
                                               channels.video_ch[k].stream,
                                               <<>>)]],
         audio |-> [k \in 1..Len(channels.audio_ch) |->
                       [channel_number |-> channels.audio_ch[k].channel_number,
                        packets |-> video_sink(usmfile,
                                               channels.audio_ch[k].stream,
                                               <<>>)]]]

\* C4: opening a muxed file and muxing it again keeps, for every channel,
\* the number, the payloads and the order of its STREAM chunks; each opened
\* channel's length is the number of STREAM chunks recorded for it.
C4_RemuxKeepsStreams ==
    mx_opened =>
        /\ mx_pc /= "failed"
        /\ \A k \in 1..Len(mx_usm.videos) :
               mx_usm.videos[k].length = Len(mx_usm.videos[k].stream)
        /\ \A k \in 1..Len(mx_usm.audios) :
               mx_usm.audios[k].length = Len(mx_usm.audios[k].stream)
        /\ mx_pc = "done" =>
               MxStreamsOf(Flatten(mx_out)) = MxStreamsOf(mx_src)

\* the chunks of a file read from their headers alone, from offset o on:
\* where the chunk begins, its kind, payload kind and channel, and the number
\* of payload bytes, length_after_8 - 0x18 - padding_size
RECURSIVE MxChunkTable(_, _)
MxChunkTable(file, o) ==
    IF o + 32 > Len(file) THEN <<>>
    ELSE <<[offset |-> o,
            chunk_type |-> Slice(file, o, o + 4),
            payload_type |-> At(file, o + 15) % 4,
            channel_number |-> At(file, o + 12),
            size |-> FromBytesBE(Slice(file, o + 4, o + 8)) - 24
                     - FromBytesBE(Slice(file, o + 10, o + 12))]>>
         \o MxChunkTable(file, o + 8 + FromBytesBE(Slice(file, o + 4, o + 8)))

\* the packet index the STREAM chunks of a channel call for
MxExpectedIndex(table, chunk_type, channel_number) ==
    LET chunks == SelectSeq(table, LAMBDA c :
                      /\ c.chunk_type = chunk_type
                      /\ c.payload_type = STREAM
                      /\ c.channel_number = channel_number)
    IN  [k \in 1..Len(chunks) |->
            [offset |-> chunks[k].offset + 32, size |-> chunks[k].size]]

\* the channels hold the index called for, and every channel with a STREAM
\* chunk is among them
MxIndexMatches(channels, table, chunk_type) ==
    /\ \A k \in 1..Len(channels) :
          channels[k].stream
              = MxExpectedIndex(table, chunk_type, channels[k].channel_number)
    /\ \A c \in 1..Len(table) :
          (table[c].chunk_type = chunk_type /\ table[c].payload_type = STREAM) =>
              \E k \in 1..Len(channels) :
                  channels[k].channel_number = table[c].channel_number

\* C16: during Usm.open, for every VIDEO or AUDIO chunk of payload kind
\* STREAM at file offset o, whatever its payload bytes are, the entry
\* (o + 0x20, length_after_8 - 0x18 - padding_size) is appended to the packet
\* index of the channel of that kind and channel_number, in file order, and
\* no other chunk adds an entry.
C16_PacketIndex ==
    mx_opened =>
        /\ mx_channels.err = ""
        /\ MxIndexMatches(mx_channels.video_ch, MxChunkTable(mx_src, 0), VIDEO)
        /\ MxIndexMatches(mx_channels.audio_ch, MxChunkTable(mx_src, 0), AUDIO)

\* the top-level directory pages among the pages of the CRID chunks: those
\* with chno = -1
MxTopPages(crids) ==
    SelectSeq(crids, LAMBDA page :
        PageHas(page, StrChno) /\ PageGet(page, StrChno).val.v = <<-1>>)

\* what C17 says of the result of Usm.open, crids being the directory pages
\* of the file: [err, usm] is the exception raised or the Usm returned
MxVersionFromTop(crids, err, usm) ==
    /\ (Len(MxTopPages(crids)) > 0 /\ PageHas(MxTopPages(crids)[1], StrFmtver)) =>
           /\ err = ""
           /\ usm.version = PageGet(MxTopPages(crids)[1], StrFmtver).val.v[1]
    /\ err = "Format version not found." =>
           /\ Len(MxTopPages(crids)) > 0
           /\ ~PageHas(MxTopPages(crids)[1], StrFmtver)

\* C17: the format version of a Usm returned by Usm.open is the fmtver of the
\* top-level directory page (chno = -1), for every file that has such a page
\* with a fmtver, whatever video channel numbers the file contains; the open
\* fails for a missing format version only when that page has no fmtver.
C17_VersionFromTopPage ==
    [][(mx_pc = "done" /\ mx_opened') =>
           MxVersionFromTop(mx_channels'.crids, mx_err', mx_usm')]_vars

\* C18: in the stream section written by _pack_stream, every chunk of frame
\* i precedes every chunk of frame i + 1; within a frame the chunks of the
\* video channels precede those of the audio channels; and within a kind
\* the channels appear in ascending channel_number, whatever the order the
\* caller passed them in.
C18_StreamOrder ==
    \A a, b \in 1..Len(mx_ps.written) :
        a < b =>
            /\ mx_ps.written[a].index <= mx_ps.written[b].index
            /\ mx_ps.written[a].index = mx_ps.written[b].index =>
                  /\ ~(/\ mx_ps.written[a].chunk.chunk_type = AUDIO
                       /\ mx_ps.written[b].chunk.chunk_type = VIDEO)
                  /\ mx_ps.written[a].chunk.chunk_type
                         = mx_ps.written[b].chunk.chunk_type =>
                        mx_ps.written[a].chunk.channel_number
                            <= mx_ps.written[b].chunk.channel_number

\* a written chunk of the given kind, channel and frame
MxWrote(chunk_type, channel_number, index) ==
    \E a \in 1..Len(mx_ps.written) :
        /\ mx_ps.written[a].chunk.chunk_type = chunk_type
        /\ mx_ps.written[a].chunk.channel_number = channel_number
        /\ mx_ps.written[a].index = index

\* two videos passed with channel 1 first, next to two audios passed the
\* same way, all with a chunk in frame 0 and video 0 with one in frame 1
C18_Witness ==
    /\ mx_pc = "emit"
    /\ ~mx_opened
    /\ MxWrote(VIDEO, 0, 0) /\ MxWrote(VIDEO, 1, 0)
    /\ MxWrote(AUDIO, 0, 0) /\ MxWrote(AUDIO, 1, 0)
    /\ MxWrote(VIDEO, 0, 1)

\* _pack_stream has returned: every round of its loop has run
MxStreamWritten ==
    \/ mx_pc \in {"emit", "done"}
    \/ mx_pc = "pack" /\ mx_index >= mx_usm.max_frame

\* the chunks of a channel among the chunks written, each with its place
MxChunksOf(written, chunk_type, channel_number) ==
    SelectSeq([k \in 1..Len(written) |-> [pos |-> k, chunk |-> written[k].chunk]],
              LAMBDA w : /\ w.chunk.chunk_type = chunk_type
                         /\ w.chunk.channel_number = channel_number)

\* own being the chunks of the channel media: its packets in STREAM chunks
\* in packet order, then one SECTION_END chunk right after the last of them
MxChannelComplete(own, media) ==
    /\ Len(own) = media.length + 1
    /\ \A k \in 1..media.length :
          /\ own[k].chunk.payload_type = STREAM
          /\ own[k].chunk.payload.bytes = media.stream[k].data
    /\ own[media.length + 1].chunk.payload_type = SECTION_END
    /\ own[media.length + 1].pos = own[media.length].pos + 1

\* the channels of a kind that have N >= 1 packets, N their declared length
MxAllComplete(written, medias, chunk_type) ==
    \A k \in 1..Len(medias) :
        (medias[k].length = Len(medias[k].stream) /\ medias[k].length >= 1) =>
            MxChannelComplete(
                MxChunksOf(written, chunk_type, medias[k].channel_number),
                medias[k])

\* C19: for every channel with N >= 1 packets, N equal to its declared
\* length, muxed together with any other channels of any lengths, the stream
\* section holds exactly N STREAM chunks of that channel, carrying its
\* packets in packet order, and exactly one SECTION_END chunk of that
\* channel, placed immediately after its N-th STREAM chunk: no packet is
\* dropped and no STREAM chunk of the channel follows its SECTION_END.
C19_ChannelChunks ==
    MxStreamWritten =>
        /\ MxAllComplete(mx_ps.written, mx_usm.videos, VIDEO)
        /\ MxAllComplete(mx_ps.written, mx_usm.audios, AUDIO)

\* two videos of 2 packets next to an audio of 1 packet and one of 2, the
\* stream section written
C19_Witness ==
    /\ mx_pc = "emit"
    /\ ~mx_opened
    /\ Len(mx_usm.videos) = 2 /\ Len(mx_usm.audios) = 2
    /\ mx_usm.videos[1].length = 2 /\ mx_usm.videos[2].length = 2
    /\ mx_usm.audios[1].length = 1 /\ mx_usm.audios[2].length = 2
    /\ Len(mx_ps.written) = 11

\* the number of chunks of a channel among chunks that have the payload
\* kind payload_type and, for a SECTION_END, the payload marker
MxCount(chunks, chunk_type, channel_number, payload_type, marker) ==
    Cardinality({k \in 1..Len(chunks) :
        /\ chunks[k].chunk_type = chunk_type
        /\ chunks[k].channel_number = channel_number
        /\ chunks[k].payload_type = payload_type
        /\ payload_type = SECTION_END => chunks[k].payload.bytes = marker})

\* the channels of a kind that have no packet: one HEADER chunk and one
\* header-end chunk yielded for each, and no STREAM chunk written
MxZeroPacketChunks(medias, chunk_type) ==
    \A k \in 1..Len(medias) :
        Len(medias[k].stream) = 0 =>
            /\ MxCount(mx_emitted, chunk_type, medias[k].channel_number,
                       HEADER, <<>>) = 1
            /\ MxCount(mx_emitted, chunk_type, medias[k].channel_number,
                       SECTION_END, StrHeaderEnd) = 1
            /\ MxCount([w \in 1..Len(mx_ps.written) |-> mx_ps.written[w].chunk],
                       chunk_type, medias[k].channel_number, STREAM, <<>>) = 0

\* a channel of the Usm has no packet
MxHasZeroPacketChannel ==
    \/ \E k \in 1..Len(mx_usm.videos) : Len(mx_usm.videos[k].stream) = 0
    \/ \E k \in 1..Len(mx_usm.audios) : Len(mx_usm.audios[k].stream) = 0

\* C20: muxing a Usm that contains a channel with zero packets completes
\* without error, and emits exactly one HEADER chunk and one header-end
\* SECTION_END chunk for that channel, with no STREAM chunk for it.
C20_ZeroPacketChannel ==
    (~mx_opened /\ MxHasZeroPacketChannel) =>
        /\ mx_pc /= "failed"
        /\ mx_pc = "done" =>
              /\ MxZeroPacketChunks(mx_usm.videos, VIDEO)
              /\ MxZeroPacketChunks(mx_usm.audios, AUDIO)

\* C21: the top CRID chunk emitted by the muxer starts at offset 0, its
\* packed length is a positive multiple of 0x800 for every size of the
\* directory page table, and its padding is in [0, 0x7FF].
C21_CridChunkSector ==
    (~mx_opened /\ Len(mx_out) >= 1) =>
        /\ Slice(mx_out[1], 0, 4) = INFO
        /\ mx_emitted[1].chunk_type = INFO
        /\ Len(mx_out[1]) > 0
        /\ Len(mx_out[1]) % 2048 = 0
        /\ Len(mx_out[1]) = 8 + FromBytesBE(Slice(mx_out[1], 4, 8))
        /\ FromBytesBE(Slice(mx_out[1], 10, 12)) \in 0..2047

\* a directory table that outgrows one sector: the CRID chunk is two long
C21_Witness ==
    /\ ~mx_opened
    /\ mx_pc = "done"
    /\ Len(mx_out[1]) = 4096
    /\ Slice(mx_out[1], 0, 4) = INFO

\* C23: every file handle and scratch file is released on every exit path:
\* when Usm.open fails, the file handle it opened is closed; and the scratch
\* file of the muxer is closed when Usm.stream completes, fails, or is
\* dropped by the caller before exhaustion.
C23_FilesReleased ==
    /\ (mx_pc = "failed" /\ mx_opened /\ mx_usm = <<>>) => mx_handle = "closed"
    /\ mx_pc \in {"done", "failed", "dropped"} => mx_scratch = "closed"

\* the directory page, header page and metadata pages of each channel
MxPagesOf(medias) ==
    [k \in 1..Len(medias) |->
        [crid_page |-> medias[k].crid_page,
         header_page |-> medias[k].header_page,
         metadata_pages |-> medias[k].metadata_pages]]

\* the channels of two Usm objects hold the same pages
MxSamePages(before, after) ==
    /\ MxPagesOf(after.videos) = MxPagesOf(before.videos)
    /\ MxPagesOf(after.audios) = MxPagesOf(before.audios)

\* C24: muxing leaves every channel's directory page, header page and
\* metadata pages unchanged: each element value, ofs_byte of a
\* caller-supplied VIDEO_SEEKINFO page included, is the same after a step
\* of Usm.stream as before it.
C24_MuxKeepsPages ==
    [][(mx_pc \in {"pack", "emit"}) =>
           MxSamePages(mx_usm, mx_usm')]_vars

\* the kind tags of the chunks of a file
MxTagsOf(table) == {table[k].chunk_type : k \in 1..Len(table)}

\* C25: Usm.open does not reject a file because of a chunk whose 4-byte
\* kind tag is one of the ten tags of ChunkType: the demux scan and
\* UsmChunk.from_bytes accept the same set of tags, and the failure for an
\* unknown chunk kind is raised only for a tag outside that set.
C25_TenTagsAccepted ==
    mx_opened =>
        /\ \A tag \in MxTagsOf(MxChunkTable(mx_src, 0)) :
              is_valid_chunk(tag) <=> tag \in ChunkTypeValues
        /\ mx_err = "Invalid signature" =>
              \E tag \in MxTagsOf(MxChunkTable(mx_src, 0)) :
                  tag \notin ChunkTypeValues

----------------------------------------------------------------------------
(* Further claims about the page codec *)

\* the big-endian field of a table at bytes [a, b)
PgField(table, a, b) == FromBytesBE(Slice(table, a, b))

\* the prelude of a table packed from pages: the magic, the size, the
\* offsets in order, the counts, and the page name after "<NULL>"
PgPrelude(table, pages) ==
    /\ Slice(table, 0, 4) = StrUTF
    /\ PgField(table, 4, 8) = Len(table) - 8
    /\ 24 <= PgField(table, 8, 12)
    /\ PgField(table, 8, 12) <= PgField(table, 12, 16)
    /\ PgField(table, 12, 16) <= PgField(table, 16, 20)
    /\ PgField(table, 16, 20) <= PgField(table, 4, 8)
    /\ PgField(table, 28, 32) = Len(pages)
    /\ PgField(table, 24, 26) = Len(pages[1].dict)
    /\ PgField(table, 26, 28) * PgField(table, 28, 32)
           = PgField(table, 12, 16) - PgField(table, 8, 12)
    /\ Slice(table, 8 + PgField(table, 12, 16), 15 + PgField(table, 12, 16))
           = StrNULL \o <<0>>
    /\ PgField(table, 20, 24) = 7
    /\ Slice(table, 15 + PgField(table, 12, 16),
             16 + PgField(table, 12, 16) + Len(Utf8Encode(pages[1].name)))
           = Utf8Encode(pages[1].name) \o <<0>>

\* C26: for every valid page list, the bytes returned by pack_pages begin
\* with "@UTF"; the size field at bytes 4..8 is len(output) - 8; 24 <=
\* unique_array_offset <= strings_offset <= byte_array_offset <= size;
\* num_pages is len(pages); num_elements_per_page is the number of columns;
\* unique_array_size_per_page * num_pages is strings_offset -
\* unique_array_offset; and page_name_offset points at the NUL-terminated
\* page name that directly follows "<NULL>\0" in the string pool.
C26_TablePrelude ==
    (pg_pc /= "start" /\ PgValid(pg_in) /\ pg_enc.err = "") =>
        PgPrelude(pg_enc.bytes, pg_in)

\* a table of two pages with a Bytes column and a String column was packed:
\* all four regions hold bytes
C26_Witness ==
    /\ pg_pc = "packed"
    /\ pg_enc.err = ""
    /\ PgValid(pg_in)
    /\ Len(pg_in) = 2
    /\ Len(pg_in[1].dict) = 2
    /\ pg_in[1].dict[1].el.type = BYTES
    /\ pg_in[1].dict[2].el.type = STRING_T
    /\ PgField(pg_enc.bytes, 16, 20) < PgField(pg_enc.bytes, 4, 8)
    /\ PgField(pg_enc.bytes, 8, 12) < PgField(pg_enc.bytes, 12, 16)

\* the wire sizes of the columns of a page, summed
RECURSIVE PgRowWidth(_)
PgRowWidth(dict) ==
    IF Len(dict) = 0 THEN 0
    ELSE PgWidth(Head(dict).el.type) + PgRowWidth(Tail(dict))

\* a table of one page with one non-recurring column of 8 zero bytes, the
\* type bits of its descriptor replaced by tag
PgTableOfTag(tag) ==
    [pack_pages(<<[name |-> StrT,
                   dict |-> <<[key |-> StrA, el |-> Element(PyInt(0), U64)]>>]>>,
                <<StrA>>, 0).bytes EXCEPT ![33] = NON_RECURRING * 32 + tag]

\* C27: for each of the twelve element types with tags 0x10..0x1B,
\* pack_pages writes and get_pages consumes exactly the type's wire size
\* (1, 1, 2, 2, 4, 4, 8, 8, 4, 8, 4, 8 bytes); none of the twelve is
\* rejected by the encoder or the decoder; and the decoder rejects every
\* tag outside 0x10..0x1B.
C27_TypeWireSizes ==
    /\ (pg_pc /= "start" /\ PgValid(pg_in)) =>
           /\ pg_enc.err = ""
           /\ Len(pg_in) = 1 =>
                  PgField(pg_enc.bytes, 12, 16) - PgField(pg_enc.bytes, 8, 12)
                      = PgRowWidth(pg_in[1].dict)
           /\ pg_pc = "decoded" => pg_dec.err = ""
    /\ \A tag \in 0..31 :
           get_pages(PgTableOfTag(tag)).err = "" <=> tag \in ElementTypeTags

\* the page table carried by the k-th block the muxer yielded
MxYieldedTable(k) ==
    Slice(mx_out[k], 32, 8 + FromBytesBE(Slice(mx_out[k], 4, 8))
                           - FromBytesBE(Slice(mx_out[k], 10, 12)))

\* the table of the k-th pre-stream chunk, encoded with string_padding
MxTableWithPadding(k, string_padding) ==
    pack_pages(mx_emitted[k].payload.pages,
               ChunkKeyOrder(mx_emitted[k], mx_rev), string_padding).bytes

\* C29: the page table of the top-level directory (the payload of the CRID
\* chunk the muxer emits) is encoded with string_padding = 5, every other
\* page table the muxer emits with string_padding = 0.
C29_DirectoryStringPadding ==
    (~mx_opened /\ Len(mx_emitted) >= 1) =>
        /\ mx_emitted[1].chunk_type = INFO
        /\ MxYieldedTable(1) = MxTableWithPadding(1, 5)
        /\ \A k \in 2..Len(mx_emitted) :
               mx_emitted[k].payload.list =>
                   MxYieldedTable(k) = MxTableWithPadding(k, 0)

\* b"".join(chunk.pack() for chunk in chunks)
RECURSIVE PackedChunks(_, _)
PackedChunks(chunks, rev) ==
    IF Len(chunks) = 0 THEN <<>>
    ELSE UsmChunkPack(Head(chunks), ChunkKeyOrder(Head(chunks), rev)).bytes
         \o PackedChunks(Tail(chunks), rev)

\* the stream loop of Usm.chunks has ended, by exhaustion or by an exception
MxChunksEnded ==
    /\ mx_pc = "done"
    /\ (mx_chunks.err /= "" \/ Len(mx_ps.file) <= mx_chunks.pos)

\* C30: Usm.chunks and Usm.stream describe the same output: after the
\* pre-stream chunks, chunks() yields one chunk object per chunk written to
\* the scratch stream, in order, whose pack() concatenate to the bytes
\* stream() yields, and it ends without error at the end of the stream.
C30_ChunksMatchStream ==
    MxChunksEnded =>
        /\ mx_chunks.err = ""
        /\ Len(mx_chunks.chunks) = Len(mx_ps.written)
        /\ mx_chunks.pos = Len(mx_ps.file)
        /\ PackedChunks(mx_chunks.chunks, mx_rev) = mx_ps.file

\* the string pool of a table from the byte after the page name on, as
\* long as names is
PgNamesAfterPageName(table, page_name, names) ==
    Slice(table, 16 + PgField(table, 12, 16) + Len(Utf8Encode(page_name)),
          16 + PgField(table, 12, 16) + Len(Utf8Encode(page_name)) + Len(names))

\* C28: pack_pages lays out the string pool deterministically: after
\* "<NULL>" and the page name the column names appear in key insertion
\* order, so two encodings of equal page lists are byte-identical.
C28_ColumnNamesInOrder ==
    (pg_pc /= "start" /\ PgValid(pg_in) /\ pg_enc.err = "") =>
        /\ PgNamesAfterPageName(pg_enc.bytes, pg_in[1].name,
                                KeyNamesBytes(PgKeySeq(pg_in[1])))
               = KeyNamesBytes(PgKeySeq(pg_in[1]))
        /\ \A o \in KeyOrders(PageKeys(pg_in[1])) :
               pack_pages(pg_in, o, 0) = pg_enc

(***************************************************************************)
(* usm/tools.py: the packet iterators of an opened Usm                     *)
(***************************************************************************)

\* the threads that pull, and the pulls they begin in all
SkThreads == 2
SkMaxPulls == 4
SkThreadIds == 1..SkThreads

\* the file behind the handle, and what Usm.open hands to video_sink and
\* audio_sink: the packet index of the channel, and for a video the frame
\* numbers of its keyframes
SkBytes == <<10, 11, 12, 13, 14, 15, 16, 17>>
SkEntry(offset, size) == [offset |-> offset, size |-> size]
SkIndexes ==
    {[video |-> [entries |-> <<SkEntry(0, 2), SkEntry(4, 2)>>, keyframes |-> {0}],
      audio |-> [entries |-> <<SkEntry(2, 2)>>, keyframes |-> {}]],
     [video |-> [entries |-> <<SkEntry(4, 4)>>, keyframes |-> {}],
      audio |-> [entries |-> <<SkEntry(0, 3), SkEntry(6, 2)>>, keyframes |-> {}]]}
SkIterators == {"video", "audio"}

\* what a pull returned: the frame and is_keyframe, or the exception
SkReturned(it, i, frame, key) ==
    [done |-> TRUE, it |-> it, i |-> i, err |-> "", frame |-> frame, key |-> key]
SkRaised(it, i, err) ==
    [done |-> TRUE, it |-> it, i |-> i, err |-> err, frame |-> <<>>, key |-> FALSE]
SkNoResult ==
    [done |-> FALSE, it |-> "", i |-> 0, err |-> "", frame |-> <<>>, key |-> FALSE]

SkInit ==
    /\ sk_file = SkBytes
    /\ sk_index \in SkIndexes
    /\ sk_i = [it \in SkIterators |-> 0]
    /\ sk_running = [it \in SkIterators |-> 0]
    /\ sk_pos = 4
    /\ sk_pc = [t \in SkThreadIds |-> "idle"]
    /\ sk_it = [t \in SkThreadIds |-> ""]
    /\ sk_frame = [t \in SkThreadIds |-> <<>>]
    /\ sk_res = [t \in SkThreadIds |-> SkNoResult]
    /\ sk_calls = 0
    /\ PgIdle
    /\ CiIdle
    /\ ChIdle
    /\ MxIdle

\* the threads inside "with usmmutex"
SkHolders == {t \in SkThreadIds : sk_pc[t] \in {"seek", "read", "release"}}

\* next(gen) on a generator another thread is executing: ValueError
\* ("generator already executing"); the generator is left as it is
SinkBusy(t, it) ==
    /\ sk_pc[t] = "idle"
    /\ sk_calls < SkMaxPulls
    /\ sk_running[it] /= 0
    /\ sk_res' = [sk_res EXCEPT ![t] = SkRaised(it, sk_i[it], "ValueError")]
    /\ sk_calls' = sk_calls + 1
    /\ UNCHANGED <<sk_file, sk_index, sk_i, sk_running, sk_pos, sk_pc, sk_it,
                   sk_frame>>

\* next(gen) when range(num_frames) is exhausted: StopIteration
SinkStop(t, it) ==
    /\ sk_pc[t] = "idle"
    /\ sk_calls < SkMaxPulls
    /\ sk_running[it] = 0
    /\ sk_i[it] >= Len(sk_index[it].entries)
    /\ sk_res' = [sk_res EXCEPT ![t] = SkRaised(it, sk_i[it], "StopIteration")]
    /\ sk_calls' = sk_calls + 1
    /\ UNCHANGED <<sk_file, sk_index, sk_i, sk_running, sk_pos, sk_pc, sk_it,
                   sk_frame>>

\* next(gen): the generator runs up to "with usmmutex"
SinkNext(t, it) ==
    /\ sk_pc[t] = "idle"
    /\ sk_calls < SkMaxPulls
    /\ sk_running[it] = 0
    /\ sk_i[it] < Len(sk_index[it].entries)
    /\ sk_running' = [sk_running EXCEPT ![it] = t]
    /\ sk_it' = [sk_it EXCEPT ![t] = it]
    /\ sk_pc' = [sk_pc EXCEPT ![t] = "acquire"]
    /\ sk_res' = [sk_res EXCEPT ![t] = SkNoResult]
    /\ sk_calls' = sk_calls + 1
    /\ UNCHANGED <<sk_file, sk_index, sk_i, sk_pos, sk_frame>>

\* with usmmutex: the lock is taken when no thread holds it
SinkAcquire(t) ==
    /\ sk_pc[t] = "acquire"
    /\ SkHolders = {}
    /\ sk_pc' = [sk_pc EXCEPT ![t] = "seek"]
    /\ UNCHANGED <<sk_file, sk_index, sk_i, sk_running, sk_pos, sk_it, sk_frame,
                   sk_res, sk_calls>>

\* usmfile.seek(offset)
SinkSeek(t) ==
    /\ sk_pc[t] = "seek"
    /\ sk_pos' = sk_index[sk_it[t]].entries[sk_i[sk_it[t]] + 1].offset
    /\ sk_pc' = [sk_pc EXCEPT ![t] = "read"]
    /\ UNCHANGED <<sk_file, sk_index, sk_i, sk_running, sk_it, sk_frame, sk_res,
                   sk_calls>>

\* frame = usmfile.read(size)
SinkRead(t) ==
    /\ sk_pc[t] = "read"
    /\ sk_frame' = [sk_frame EXCEPT ![t] =
           Slice(sk_file, sk_pos,
                 sk_pos + sk_index[sk_it[t]].entries[sk_i[sk_it[t]] + 1].size)]
    /\ sk_pos' = sk_pos + Len(sk_frame'[t])
    /\ sk_pc' = [sk_pc EXCEPT ![t] = "release"]
    /\ UNCHANGED <<sk_file, sk_index, sk_i, sk_running, sk_it, sk_res, sk_calls>>

\* the end of the with block: the lock is released
SinkRelease(t) ==
    /\ sk_pc[t] = "release"
    /\ sk_pc' = [sk_pc EXCEPT ![t] = "yield"]
    /\ UNCHANGED <<sk_file, sk_index, sk_i, sk_running, sk_pos, sk_it, sk_frame,
                   sk_res, sk_calls>>

\* yield frame, is_keyframe (video_sink) or yield frame (audio_sink)
SinkYield(t) ==
    /\ sk_pc[t] = "yield"
    /\ sk_res' = [sk_res EXCEPT ![t] =
           SkReturned(sk_it[t], sk_i[sk_it[t]], sk_frame[t],
                      sk_i[sk_it[t]] \in sk_index[sk_it[t]].keyframes)]
    /\ sk_i' = [sk_i EXCEPT ![sk_it[t]] = @ + 1]
    /\ sk_running' = [sk_running EXCEPT ![sk_it[t]] = 0]
    /\ sk_pc' = [sk_pc EXCEPT ![t] = "idle"]
    /\ UNCHANGED <<sk_file, sk_index, sk_pos, sk_it, sk_frame, sk_calls>>

SkNext ==
    (\E t \in SkThreadIds :
        \/ \E it \in SkIterators : SinkBusy(t, it) \/ SinkStop(t, it) \/ SinkNext(t, it)
        \/ SinkAcquire(t) \/ SinkSeek(t) \/ SinkRead(t) \/ SinkRelease(t)
        \/ SinkYield(t))
        /\ UNCHANGED <<pg_vars, ci_vars, ch_vars, mx_vars>>

SpecSink == SkInit /\ [][SkNext]_vars

\* the bytes [offset, offset + size) of entry i (0-based) of an iterator
SkEntryBytes(it, i) ==
    Slice(sk_file, sk_index[it].entries[i + 1].offset,
          sk_index[it].entries[i + 1].offset + sk_index[it].entries[i + 1].size)

\* the mutex is held by at most one pull, and between the seek and the read
\* of a pull the handle stays where the pull put it
SkExclusive ==
    /\ Cardinality(SkHolders) <= 1
    /\ \A t \in SkThreadIds :
          sk_pc[t] = "read" =>
              sk_pos = sk_index[sk_it[t]].entries[sk_i[sk_it[t]] + 1].offset

\* a pull on an iterator with a recorded entry left has returned that
\* entry's bytes
SkPullExact(res) ==
    (res.done /\ res.i < Len(sk_index[res.it].entries)) =>
        /\ res.err = ""
        /\ res.frame = SkEntryBytes(res.it, res.i)

\* C22: under every interleaving of pulls made by any number of threads on
\* the video and audio packet iterators of one opened Usm, each pull returns
\* exactly the file bytes [offset, offset + size) of its iterator's next
\* recorded entry; no other iterator's seek or read happens between a
\* pull's seek and its read; and the mutex is held by at most one pull at a
\* time.
C22_SinkPulls ==
    /\ SkExclusive
    /\ \A t \in SkThreadIds : SkPullExact(sk_res[t])

====
